---- MODULE Spec2Model ----
(***************************************************************************)
(* Trust-monitoring and consensus-gating subsystem of the MCP payments     *)
(* simulator: the ledger store (database.py), the consensus engine         *)
(* (consensus.py) and the revocation controller / integrity evaluator      *)
(* (main.py).                                                              *)
(*                                                                         *)
(* Amounts are integers in cents (10000 = $100.00).  Rates and thresholds  *)
(* are integers in hundredths (67 = 0.67).  The EWMA is kept as an exact   *)
(* fraction num/den, so comparisons are exact rational comparisons; the    *)
(* binary floating point error of the Python arithmetic is not modelled.   *)
(* Timestamps are values of a logical clock that advances at every         *)
(* datetime.now() call.                                                    *)
(***************************************************************************)
EXTENDS Integers, Sequences, FiniteSets, TLC

VARIABLES
    agent_behavior,   \* table agent_behavior: set of rows, key (agent_id, transaction_id)
    revoked_agents,   \* table revoked_agents: set of rows, key agent_id
    transactions,     \* table transactions: set of rows, key id
    mandates,         \* table mandates: set of rows, key id
    tampered_agents,  \* main._tampered_agents
    now,              \* last value returned by datetime.now()
    last,             \* observable result of the most recent call
    calls             \* execute_with_consensus calls in flight, step by step

vars == <<agent_behavior, revoked_agents, transactions, mandates, tampered_agents, now,
          last, calls>>

(***************************************************************************)
(* Bounds                                                                  *)
(***************************************************************************)
\* Direct store calls that write are only started while the clock is below
\* MaxStoreNow.
MaxStoreNow == 2

\* In the ledger specification calls that write are only started while the
\* clock is below MaxLedgerNow.
MaxLedgerNow == 6

\* In the drift specification consensus transactions are only started while
\* the clock is below MaxDriftNow.
MaxDriftNow == 9

\* Step-by-step calls and direct revocations are only started while the
\* clock is below MaxCallNow.
MaxCallNow == 2

\* Consensus transactions that can end in a store error are only started
\* while the clock is below MaxFailingNow.
MaxFailingNow == 4

\* create_merchant_locked_card is only started while the clock is below
\* MaxRiskNow.
MaxRiskNow == 2

\* In the baseline specification votes are only logged while the clock is
\* below MaxBaselineNow.
MaxBaselineNow == 3

\* Calls that write are only started while the clock is below MaxNow.
MaxNow == 5

(***************************************************************************)
(* Inputs                                                                  *)
(***************************************************************************)
\* Amounts (cents) offered to execute_with_consensus and the evaluator.
Amounts == {5000, 10000, 20000}

\* Amounts (cents) offered to the evaluate_agent_integrity tool: around a
\* baseline of $100, exactly and just beyond 50% away from it.
EvaluatorAmounts == {4999, 5000, 12000, 15000, 15001, 20000}

\* Amounts that reach a vote: the second is twice the first.
ConsensusAmounts == {10000, 20000}

\* Inputs of the risk tools: merchants (empty, blank, padded, known,
\* unknown), amounts in cents, hours, and the random draws of the card tool.
RiskMerchants == {"", "   ", "Amazon", " Amazon ", "test"}
RiskAmounts == {-100, 0, 1, 5000, 150000}
RiskHours == {-1, 0, 12, 23, 24}
ClockHours == {3, 12}
CardSuffixes == {0, 9999}
MandateNumbers == {100000, 999999}

\* Inputs of execute_with_consensus that a validation would refuse, beside
\* valid ones.
UncheckedAmounts == {-100, 0, 5000, 10000}
UncheckedMerchants == {"", "   ", "Amazon"}

\* Inputs of the baseline tool: the votes logged for the agent and the decay
\* factors p/q.
BaselineTxIds == {[kind |-> "vote", merchant |-> "Amazon", amount |-> a, n |-> 3] :
                        a \in {8000, 9000, 10000}}
BaselineAmounts == {8000, 9000, 10000}
BaselineVotes == {"approve", "review"}
Decays == {[p |-> 1, q |-> 2], [p |-> 9, q |-> 10]}

\* Amounts around the auto-approve floor of $100.
BypassAmounts == {5000, 9999, 10000}

\* Limits passed to get_recent_approved_amounts: one that truncates and the
\* default.
HistoryLimits == {1, 100}

\* Amounts (cents) around the $1000 boundary offered to execute_with_consensus.
LargeAmounts == {100000, 100001}

\* Amounts (cents) that the full roster rejects at some merchant: $750 and
\* $1000.01.
GateAmounts == {75000, 100001}

\* Amounts (cents) of a gradual drift, each within 50% of the baseline the
\* ones before it leave ($100, $150, $189), and $250, which is outside it.
DriftAmounts == {10000, 15000, 18900, 25000}

\* Amounts (cents) each more than 50% above the one before: $100, $200, $300.
ReinstateAmounts == {10000, 20000, 30000}

\* Amounts (cents) of the calls in flight together: $50, which takes the
\* bypass, and $200, which is voted on and is more than 50% above a history
\* of $100.
InterleavedAmounts == {5000, 20000}

\* Amount (cents) of the runs compared with each other: $1000.01, which the
\* full roster rejects and the finance and compliance agents alone approve.
RunAmounts == {100001}

\* Inputs of the direct store calls.
StoreTxIds == {[kind |-> "vote", merchant |-> m, amount |-> 10000, n |-> 3] :
                    m \in {"Amazon", "test"}}
StoreVotes == {"approve", "reject"}
StoreAmounts == {10000, 20000}
StoreStatuses == {"approved", "rejected"}
RevokeReasons == {"Manual", "Performance"}

\* The record of an earlier approve vote of $100.
RunHistoryTxIds == {tx_id \in StoreTxIds : tx_id.merchant = "test"}

\* Amounts (cents) offered to the engine directly: the tier boundaries.
EngineAmounts == {5000, 9999, 10000, 10001, 50000, 50001, 75000, 100000,
                  100001, 500000, 1000000, 1000001}

Merchants == {"Amazon", "test"}

(***************************************************************************)
(* Roster and fixed data                                                   *)
(***************************************************************************)
Roster == <<"finance_agent_001", "compliance_agent_002", "audit_agent_003">>

Agents == {Roster[i] : i \in 1..Len(Roster)}

\* str.lower() on the merchant names in use.
Lower(merchant) ==
    CASE merchant = "Amazon" -> "amazon"
      [] OTHER -> merchant

\* str.upper() on the vote and status words in use.
Upper(word) ==
    CASE word = "approve" -> "APPROVE"
      [] word = "reject" -> "REJECT"
      [] word = "review" -> "REVIEW"
      [] word = "approved" -> "APPROVED"
      [] word = "rejected" -> "REJECTED"
      [] OTHER -> word

known_merchants == {"amazon", "netflix", "stripe", "uber", "github"}

\* The role keyword found in the agent id by the substring tests.
RoleKeyword(agent_id) ==
    CASE agent_id = "finance_agent_001" -> "finance"
      [] agent_id = "compliance_agent_002" -> "compliance"
      [] agent_id = "audit_agent_003" -> "audit"
      [] OTHER -> "other"

AutoRevokeReason == "Compromised: Dual-signal detection triggered"
ManualRevokeReason == "Manual"

Min(a, b) == IF a < b THEN a ELSE b
Abs(x) == IF x < 0 THEN -x ELSE x

RECURSIVE Pow(_, _)
Pow(b, e) == IF e = 0 THEN 1 ELSE b * Pow(b, e - 1)

(***************************************************************************)
(* Ledger store (database.py)                                              *)
(***************************************************************************)
\* INSERT OR REPLACE INTO transactions
log_transaction(tbl, tx_id, amount, merchant, status, ts) ==
    {r \in tbl : r.id # tx_id}
        \cup {[id |-> tx_id, amount |-> amount, merchant |-> merchant,
               status |-> status, created_at |-> ts]}

\* Variant: INSERT OR IGNORE, the first record of a key is kept.
log_agent_vote_keep_first(tbl, agent_id, tx_id, vote, amount, ts) ==
    IF \E r \in tbl : r.agent_id = agent_id /\ r.transaction_id = tx_id
    THEN tbl
    ELSE tbl \cup {[agent_id |-> agent_id, transaction_id |-> tx_id,
                    vote |-> Upper(vote), amount |-> amount, timestamp |-> ts]}

\* INSERT OR REPLACE INTO agent_behavior, the vote stored upper-cased
log_agent_vote(tbl, agent_id, tx_id, vote, amount, ts) ==
    {r \in tbl : ~(r.agent_id = agent_id /\ r.transaction_id = tx_id)}
        \cup {[agent_id |-> agent_id, transaction_id |-> tx_id,
               vote |-> Upper(vote), amount |-> amount, timestamp |-> ts]}

\* Variant: ORDER BY timestamp ASC.
RECURSIVE OrderByTimestampAsc(_)
OrderByTimestampAsc(rows) ==
    IF rows = {} THEN <<>>
    ELSE LET bottom == CHOOSE r \in rows : \A q \in rows : q.timestamp >= r.timestamp
         IN  <<bottom>> \o OrderByTimestampAsc(rows \ {bottom})

RECURSIVE OrderByTimestampDesc(_)
OrderByTimestampDesc(rows) ==
    IF rows = {} THEN <<>>
    ELSE LET top == CHOOSE r \in rows : \A q \in rows : q.timestamp <= r.timestamp
         IN  <<top>> \o OrderByTimestampDesc(rows \ {top})

\* Variant: the history takes the amounts of all the agent's votes.
get_recent_approved_amounts_any_vote(tbl, agent_id, limit) ==
    LET rows == {r \in tbl : r.agent_id = agent_id}
        ordered == OrderByTimestampDesc(rows)
    IN  [i \in 1..Min(limit, Len(ordered)) |-> ordered[i].amount]

\* SELECT amount ... WHERE agent_id = ? AND vote = 'APPROVE'
\* ORDER BY timestamp DESC LIMIT ?
get_recent_approved_amounts(tbl, agent_id, limit) ==
    LET rows == {r \in tbl : r.agent_id = agent_id /\ r.vote = "APPROVE"}
        ordered == OrderByTimestampDesc(rows)
    IN  [i \in 1..Min(limit, Len(ordered)) |-> ordered[i].amount]

\* Variant: the revocation row is never inserted.
revoke_agent_dropped(tbl, agent_id, reason, ts) == tbl

\* Variant: a plain INSERT that keeps the agent's earlier record.
revoke_agent_appending(tbl, agent_id, reason, ts) ==
    tbl \cup {[agent_id |-> agent_id, reason |-> reason, revoked_at |-> ts]}

\* Variant: the table is keyed by agent and reason.
revoke_agent_keyed_by_reason(tbl, agent_id, reason, ts) ==
    {r \in tbl : ~(r.agent_id = agent_id /\ r.reason = reason)}
        \cup {[agent_id |-> agent_id, reason |-> reason, revoked_at |-> ts]}

\* INSERT OR REPLACE INTO revoked_agents
revoke_agent(tbl, agent_id, reason, ts) ==
    {r \in tbl : r.agent_id # agent_id}
        \cup {[agent_id |-> agent_id, reason |-> reason, revoked_at |-> ts]}

\* Variant: the DELETE removes nothing.
db_reinstate_agent_kept(tbl, agent_id) == tbl

\* DELETE FROM revoked_agents WHERE agent_id = ?
db_reinstate_agent(tbl, agent_id) == {r \in tbl : r.agent_id # agent_id}

\* Variant: the lookup never finds a row.
is_agent_revoked_never(tbl, agent_id) == FALSE

\* SELECT 1 FROM revoked_agents WHERE agent_id = ?
is_agent_revoked(tbl, agent_id) == \E r \in tbl : r.agent_id = agent_id

\* SELECT agent_id, reason, revoked_at FROM revoked_agents
get_revoked_agents(tbl) == tbl

\* The get_compromised_agents tool: the report lists one entry per row of
\* get_revoked_agents, or says that there is none.
get_compromised_agents(tbl) ==
    LET revoked == get_revoked_agents(tbl)
    IN  IF revoked = {}
        THEN [message |-> "No agents are currently revoked.", entries |-> {}]
        ELSE [message |-> "Revoked Agents Report", entries |-> revoked]

(***************************************************************************)
(* Consensus engine (consensus.py)                                         *)
(***************************************************************************)
\* Variant: the audit agent approves every amount.
vote_decision_audit_approves(agent_id, amount, merchant) ==
    CASE RoleKeyword(agent_id) = "finance" ->
            IF amount <= 1000000 THEN "approve" ELSE "reject"
      [] RoleKeyword(agent_id) = "compliance" ->
            IF Lower(merchant) \notin known_merchants THEN "review" ELSE "approve"
      [] OTHER -> "approve"

\* Variant: the finance agent rejects an amount other than the ones it has
\* approved before.
vote_decision_by_history(agent_id, amount, merchant) ==
    CASE RoleKeyword(agent_id) = "finance" ->
            IF \E r \in agent_behavior :
                    r.agent_id = agent_id /\ r.vote = "APPROVE" /\ r.amount # amount
            THEN "reject"
            ELSE IF amount <= 1000000 THEN "approve" ELSE "reject"
      [] RoleKeyword(agent_id) = "compliance" ->
            IF Lower(merchant) \notin known_merchants THEN "review" ELSE "approve"
      [] RoleKeyword(agent_id) = "audit" ->
            IF amount > 50000 THEN "review" ELSE "approve"
      [] OTHER -> "approve"

\* The per-role voting rule of simulate_vote.
vote_decision(agent_id, amount, merchant) ==
    CASE RoleKeyword(agent_id) = "finance" ->
            IF amount <= 1000000 THEN "approve" ELSE "reject"
      [] RoleKeyword(agent_id) = "compliance" ->
            IF Lower(merchant) \notin known_merchants THEN "review" ELSE "approve"
      [] RoleKeyword(agent_id) = "audit" ->
            IF amount > 50000 THEN "review" ELSE "approve"
      [] OTHER -> "approve"

\* Variant: the $1000 boundary falls in the 80% tier.
required_threshold_exclusive(amount) ==
    IF amount <= 10000 THEN 0
    ELSE IF amount < 100000 THEN 67
    ELSE 80

\* The dynamic required threshold, in hundredths.
required_threshold(amount) ==
    IF amount <= 10000 THEN 0
    ELSE IF amount <= 100000 THEN 67
    ELSE 80

\* Variant: truncation to 2 decimal places instead of rounding.
Round2_truncating(num, den) == (100 * num) \div den

\* round(num/den, 2) in hundredths: nearest, ties to even.
Round2(num, den) ==
    LET q == (100 * num) \div den
        r == (100 * num) % den
    IN  IF 2 * r > den THEN q + 1
        ELSE IF 2 * r < den THEN q
        ELSE IF q % 2 = 0 THEN q ELSE q + 1

\* Variant: the rate is taken over the whole roster, not over the votes cast.
approval_rate_full_roster(votes) ==
    LET approved_count == Cardinality({i \in 1..Len(votes) : votes[i].vote = "approve"})
    IN  [num |-> approved_count, den |-> Len(Roster)]

\* approved_count / total_votes if total_votes > 0 else 0.0, as a fraction.
approval_rate(votes) ==
    LET approved_count == Cardinality({i \in 1..Len(votes) : votes[i].vote = "approve"})
        total_votes == Len(votes)
    IN  IF total_votes > 0 THEN [num |-> approved_count, den |-> total_votes]
        ELSE [num |-> 0, den |-> 1]

\* tx_<hash(f"{merchant}_{amount}_{len(votes)}")>: a function of exactly
\* these three values (hash collisions are not modelled).
vote_tx_id(merchant, amount, n) ==
    [kind |-> "vote", merchant |-> merchant, amount |-> amount, n |-> n]

\* ConsensusEngine.simulate_vote with self.agents = agents.
simulate_vote(agents, amount, merchant) ==
    LET votes == [i \in 1..Len(agents) |->
                    [agent_id |-> agents[i],
                     vote |-> vote_decision(agents[i], amount, merchant)]]
        rate == approval_rate(votes)
        is_approved == Round2(rate.num, rate.den) >= required_threshold(amount)
    IN  [transaction_id |-> vote_tx_id(merchant, amount, Len(votes)),
         status |-> IF is_approved THEN "approved" ELSE "rejected",
         votes |-> votes,
         approval_rate |-> Round2(rate.num, rate.den),
         required_threshold |-> required_threshold(amount)]

(***************************************************************************)
(* Integrity evaluator (main.py)                                           *)
(***************************************************************************)
\* sha256 of "<agent_id>-model-v1.3"
get_model_weight_hash(agent_id) == <<agent_id, "model-v1.3">>

\* A fingerprint recorded for an earlier model version.
StaleHash(agent_id) == <<agent_id, "model-v1.2">>

\* Variant: only the hash comparison, without the tampered set.
_has_weights_tampered_hash_only(tampered, agent_id, last_known_hash) ==
    get_model_weight_hash(agent_id) # last_known_hash

_has_weights_tampered(tampered, agent_id, last_known_hash) ==
    IF agent_id \in tampered THEN TRUE
    ELSE get_model_weight_hash(agent_id) # last_known_hash

\* Variant: a static baseline, the oldest sample of the history.
EwmaOf_first_sample(amounts) ==
    [num |-> amounts[Len(amounts)], den |-> 1]

\* weighted_sum / weight_total for decay 0.9, both scaled by 10^(n-1).
EwmaOf(amounts) ==
    LET n == Len(amounts)
        weight(i) == Pow(9, i) * Pow(10, n - 1 - i)
        Sum[k \in 0..n] ==
            IF k = 0 THEN [ws |-> 0, wt |-> 0]
            ELSE [ws |-> Sum[k - 1].ws + amounts[k] * weight(k - 1),
                  wt |-> Sum[k - 1].wt + weight(k - 1)]
    IN  [num |-> Sum[n].ws, den |-> Sum[n].wt]

\* Variant: drift >= 0.5 * ewma.
behavioral_anomaly_inclusive(ewma, current_vote_amount) ==
    IF ewma.num > 0
    THEN 2 * Abs(current_vote_amount * ewma.den - ewma.num) >= ewma.num
    ELSE FALSE

\* Variant: only an amount above the baseline counts as drift.
behavioral_anomaly_upward_only(ewma, current_vote_amount) ==
    IF ewma.num > 0
    THEN 2 * (current_vote_amount * ewma.den - ewma.num) > ewma.num
    ELSE FALSE

\* drift > 0.5 * ewma if ewma > 0 else False, for ewma = num/den, den > 0.
behavioral_anomaly(ewma, current_vote_amount) ==
    IF ewma.num > 0
    THEN 2 * Abs(current_vote_amount * ewma.den - ewma.num) > ewma.num
    ELSE FALSE

\* Variant: the weight decay ** i is given to the i-th oldest sample.
EwmaWith_oldest_first(amounts, decay) ==
    LET n == Len(amounts)
        weight(i) == Pow(decay.p, i) * Pow(decay.q, n - 1 - i)
        Sum[k \in 0..n] ==
            IF k = 0 THEN [ws |-> 0, wt |-> 0]
            ELSE [ws |-> Sum[k - 1].ws + amounts[n + 1 - k] * weight(k - 1),
                  wt |-> Sum[k - 1].wt + weight(k - 1)]
    IN  [num |-> Sum[n].ws, den |-> Sum[n].wt]

\* weighted_sum / weight_total of get_exponential_baseline for decay = p/q,
\* as the fraction num/den with every weight scaled by q^(n-1).
EwmaWith(amounts, decay) ==
    LET n == Len(amounts)
        weight(i) == Pow(decay.p, i) * Pow(decay.q, n - 1 - i)
        Sum[k \in 0..n] ==
            IF k = 0 THEN [ws |-> 0, wt |-> 0]
            ELSE [ws |-> Sum[k - 1].ws + amounts[k] * weight(k - 1),
                  wt |-> Sum[k - 1].wt + weight(k - 1)]
    IN  [num |-> Sum[n].ws, den |-> Sum[n].wt]

\* round(x, 2) on an amount num/den in cents: the nearest cent, ties to even.
RoundCents(num, den) ==
    LET q == num \div den
        r == num % den
    IN  IF 2 * r > den \/ (2 * r = den /\ q % 2 = 1) THEN q + 1 ELSE q

BaselineLimit == 100

\* Variant: the plain mean of the samples.
get_exponential_baseline_unweighted(tbl, agent_id, decay) ==
    LET amounts == get_recent_approved_amounts(tbl, agent_id, BaselineLimit)
        e == EwmaWith(amounts, [p |-> 1, q |-> 1])
    IN  IF amounts = <<>>
        THEN [ewma |-> 0, sample_count |-> 0]
        ELSE [ewma |-> RoundCents(e.num, e.den), sample_count |-> Len(amounts)]

\* The get_exponential_baseline tool.
get_exponential_baseline(tbl, agent_id, decay) ==
    LET amounts == get_recent_approved_amounts(tbl, agent_id, BaselineLimit)
        e == EwmaWith(amounts, decay)
    IN  IF amounts = <<>>
        THEN [ewma |-> 0, sample_count |-> 0]
        ELSE [ewma |-> RoundCents(e.num, e.den), sample_count |-> Len(amounts)]

HistoryWindow == 50

\* Variant: the behavioural signal alone revokes.
_evaluate_agent_integrity_single_signal(tbl, tampered, agent_id, current_vote_amount, last_known_hash) ==
    LET historical_amounts == get_recent_approved_amounts(tbl, agent_id, HistoryWindow)
        ewma == IF historical_amounts = <<>>
                THEN [num |-> current_vote_amount, den |-> 1]
                ELSE EwmaOf(historical_amounts)
        anomaly == behavioral_anomaly(ewma, current_vote_amount)
        hash_tampered == _has_weights_tampered(tampered, agent_id, last_known_hash)
    IN  IF anomaly THEN [action |-> "REVOKE", confidence |-> "HIGH"]
        ELSE IF hash_tampered THEN [action |-> "IGNORE", confidence |-> "LOW"]
        ELSE [action |-> "APPROVE", confidence |-> "HIGH"]

_evaluate_agent_integrity(tbl, tampered, agent_id, current_vote_amount, last_known_hash) ==
    LET historical_amounts == get_recent_approved_amounts(tbl, agent_id, HistoryWindow)
        ewma == IF historical_amounts = <<>>
                THEN [num |-> current_vote_amount, den |-> 1]
                ELSE EwmaOf(historical_amounts)
        anomaly == behavioral_anomaly(ewma, current_vote_amount)
        hash_tampered == _has_weights_tampered(tampered, agent_id, last_known_hash)
    IN  IF anomaly /\ hash_tampered THEN [action |-> "REVOKE", confidence |-> "HIGH"]
        ELSE IF anomaly THEN [action |-> "HOLD_ALERT", confidence |-> "MEDIUM"]
        ELSE IF hash_tampered THEN [action |-> "IGNORE", confidence |-> "LOW"]
        ELSE [action |-> "APPROVE", confidence |-> "HIGH"]

(***************************************************************************)
(* Results                                                                 *)
(***************************************************************************)
NoTx == [kind |-> "none", merchant |-> "", amount |-> 0, n |-> 0]

\* The fields a call can report; a call fills the ones it produces.
NoResult ==
    [op |-> "none", amount |-> 0, merchant |-> "", agent_id |-> "",
     last_known_hash |-> <<>>, engine_agents |-> <<>>,
     status |-> "", consensus |-> "", transaction_id |-> NoTx,
     votes |-> <<>>, approval_rate |-> 0, required_threshold |-> 0,
     revocation_log |-> <<>>, integrity |-> <<>>,
     action |-> "", confidence |-> "", message |-> "",
     hour |-> 0, score |-> 0, level |-> "", recommendation |-> "",
     decay |-> <<>>, ewma |-> 0, sample_count |-> 0, tampered |-> FALSE,
     limit |-> 0, amounts |-> <<>>]

(***************************************************************************)
(* Revocation controller: execute_with_consensus (main.py)                 *)
(***************************************************************************)
\* Variant: the id of the bypass leaves the time out.
auto_tx_id_untimed(amount, merchant, ts) ==
    [kind |-> "auto", merchant |-> merchant, amount |-> amount, n |-> 0]

\* tx_<hash(f"{amount}{merchant}{datetime.now()}")> of the bypass.
auto_tx_id(amount, merchant, ts) ==
    [kind |-> "auto", merchant |-> merchant, amount |-> amount, n |-> ts]

\* Variant: an agent on HOLD_ALERT is revoked like a compromised one.
IntegrityStep_revokes_on_alert(st, agent_id, amount) ==
    IF is_agent_revoked(st.revoked, agent_id)
    THEN [st EXCEPT !.log = Append(@, [agent_id |-> agent_id, event |-> "EXCLUDED"])]
    ELSE
        LET last_known_hash == get_model_weight_hash(agent_id)
            integrity == _evaluate_agent_integrity(agent_behavior, tampered_agents,
                                                   agent_id, amount, last_known_hash)
            seen == Append(st.integrity,
                           [agent_id |-> agent_id, action |-> integrity.action])
        IN  IF integrity.action \in {"REVOKE", "HOLD_ALERT"}
            THEN [st EXCEPT
                    !.revoked = revoke_agent(@, agent_id, AutoRevokeReason, st.now + 1),
                    !.now = @ + 1,
                    !.log = Append(@, [agent_id |-> agent_id, event |-> "COMPROMISED"]),
                    !.integrity = seen]
            ELSE [st EXCEPT !.active = Append(@, agent_id), !.integrity = seen]

\* Variant: an agent found revoked is excluded from the vote and its
\* revocation record is cleared.
IntegrityStep_clears_excluded(st, agent_id, amount) ==
    IF is_agent_revoked(st.revoked, agent_id)
    THEN [st EXCEPT !.revoked = db_reinstate_agent(@, agent_id),
                    !.log = Append(@, [agent_id |-> agent_id, event |-> "EXCLUDED"])]
    ELSE
        LET last_known_hash == get_model_weight_hash(agent_id)
            integrity == _evaluate_agent_integrity(agent_behavior, tampered_agents,
                                                   agent_id, amount, last_known_hash)
            seen == Append(st.integrity,
                           [agent_id |-> agent_id, action |-> integrity.action])
        IN  IF integrity.action = "REVOKE"
            THEN [st EXCEPT
                    !.revoked = revoke_agent(@, agent_id, AutoRevokeReason, st.now + 1),
                    !.now = @ + 1,
                    !.log = Append(@, [agent_id |-> agent_id, event |-> "COMPROMISED"]),
                    !.integrity = seen]
            ELSE [st EXCEPT
                    !.active = Append(@, agent_id),
                    !.log = IF integrity.action = "HOLD_ALERT"
                            THEN Append(@, [agent_id |-> agent_id, event |-> "ALERT"])
                            ELSE @,
                    !.integrity = seen]

\* One iteration of the loop "for agent in engine.agents".  st carries the
\* revocation table, the clock, active_agents, revocation_log and the
\* integrity result of every agent evaluated so far.
IntegrityStep(st, agent_id, amount) ==
    IF is_agent_revoked(st.revoked, agent_id)
    THEN [st EXCEPT !.log = Append(@, [agent_id |-> agent_id, event |-> "EXCLUDED"])]
    ELSE
        LET last_known_hash == get_model_weight_hash(agent_id)
            integrity == _evaluate_agent_integrity(agent_behavior, tampered_agents,
                                                   agent_id, amount, last_known_hash)
            seen == Append(st.integrity,
                           [agent_id |-> agent_id, action |-> integrity.action])
        IN  IF integrity.action = "REVOKE"
            THEN [st EXCEPT
                    !.revoked = revoke_agent(@, agent_id, AutoRevokeReason, st.now + 1),
                    !.now = @ + 1,
                    !.log = Append(@, [agent_id |-> agent_id, event |-> "COMPROMISED"]),
                    !.integrity = seen]
            ELSE [st EXCEPT
                    !.active = Append(@, agent_id),
                    !.log = IF integrity.action = "HOLD_ALERT"
                            THEN Append(@, [agent_id |-> agent_id, event |-> "ALERT"])
                            ELSE @,
                    !.integrity = seen]

\* The loop from its i-th agent on.
RECURSIVE IntegrityLoop(_, _, _)
IntegrityLoop(i, amount, st) ==
    IF i > Len(Roster) THEN st
    ELSE IntegrityLoop(i + 1, amount, IntegrityStep(st, Roster[i], amount))

\* Variant: the empty-roster check is missing.
no_active_agents_unchecked(active_agents) == FALSE

\* if not active_agents
no_active_agents(active_agents) == active_agents = <<>>

\* The loop "for vote in result['votes']: db.log_agent_vote(...)".
RECURSIVE LogVotes(_, _, _, _, _)
LogVotes(votes, i, tx_id, amount, st) ==
    IF i > Len(votes) THEN st
    ELSE LogVotes(votes, i + 1, tx_id, amount,
            [tbl |-> log_agent_vote(st.tbl, votes[i].agent_id, tx_id,
                                    votes[i].vote, amount, st.now + 1),
             now |-> st.now + 1])

\* The tool, started only while the clock is below limit.
ExecuteWithConsensusUpTo(limit, amount, merchant) ==
    /\ now < limit
    /\ IF amount < 10000
       THEN
            LET tx_id == auto_tx_id(amount, merchant, now + 1)
                status == "approved"
            IN  /\ transactions' = log_transaction(transactions, tx_id, amount,
                                                   merchant, status, now + 2)
                /\ now' = now + 2
                /\ last' = [NoResult EXCEPT
                                !.op = "execute_with_consensus",
                                !.amount = amount, !.merchant = merchant,
                                !.transaction_id = tx_id,
                                !.status = Upper(status),
                                !.consensus = "Auto-approved (amount < $100)"]
                /\ UNCHANGED <<calls, agent_behavior, revoked_agents, tampered_agents, mandates>>
       ELSE
            LET st == IntegrityLoop(1, amount,
                        [revoked |-> revoked_agents, now |-> now, active |-> <<>>,
                         log |-> <<>>, integrity |-> <<>>])
            IN  IF no_active_agents(st.active)
                THEN
                    /\ revoked_agents' = st.revoked
                    /\ now' = st.now
                    /\ last' = [NoResult EXCEPT
                                    !.op = "execute_with_consensus",
                                    !.amount = amount, !.merchant = merchant,
                                    !.status = "BLOCKED",
                                    !.integrity = st.integrity]
                    /\ UNCHANGED <<calls, agent_behavior, transactions, tampered_agents, mandates>>
                ELSE
                    LET result == simulate_vote(st.active, amount, merchant)
                        tx_id == result.transaction_id
                        status == result.status
                        logged == LogVotes(result.votes, 1, tx_id, amount,
                                           [tbl |-> agent_behavior, now |-> st.now])
                    IN  /\ revoked_agents' = st.revoked
                        /\ agent_behavior' = logged.tbl
                        /\ transactions' = log_transaction(transactions, tx_id, amount,
                                                           merchant, status, logged.now + 1)
                        /\ now' = logged.now + 1
                        /\ last' = [NoResult EXCEPT
                                        !.op = "execute_with_consensus",
                                        !.amount = amount, !.merchant = merchant,
                                        !.transaction_id = tx_id,
                                        !.status = Upper(status),
                                        !.consensus = "vote",
                                        !.votes = result.votes,
                                        !.approval_rate = result.approval_rate,
                                        !.required_threshold = result.required_threshold,
                                        !.revocation_log = st.log,
                                        !.integrity = st.integrity]
                        /\ UNCHANGED <<calls, tampered_agents, mandates>>

ExecuteWithConsensus(amount, merchant) ==
    ExecuteWithConsensusUpTo(MaxNow, amount, merchant)

(***************************************************************************)
(* Other tools and store calls                                             *)
(***************************************************************************)
SimulateTampering(agent_id) ==
    /\ tampered_agents' = tampered_agents \cup {agent_id}
    /\ last' = [NoResult EXCEPT !.op = "simulate_tampering", !.agent_id = agent_id,
                                !.message = "Tampering simulated"]
    /\ UNCHANGED <<calls, agent_behavior, revoked_agents, transactions, now, mandates>>

\* Variant: reinstating an agent also clears its tamper flag.
ReinstateAgent_clearing_tamper(agent_id) ==
    /\ IF ~is_agent_revoked(revoked_agents, agent_id)
       THEN /\ last' = [NoResult EXCEPT !.op = "reinstate_agent", !.agent_id = agent_id,
                                        !.message = "is not currently revoked"]
            /\ UNCHANGED <<revoked_agents, tampered_agents>>
       ELSE /\ revoked_agents' = db_reinstate_agent(revoked_agents, agent_id)
            /\ tampered_agents' = tampered_agents \ {agent_id}
            /\ last' = [NoResult EXCEPT !.op = "reinstate_agent", !.agent_id = agent_id,
                                        !.message = "has been successfully reinstated"]
    /\ UNCHANGED <<calls, agent_behavior, transactions, now, mandates>>

ReinstateAgent(agent_id) ==
    /\ IF ~is_agent_revoked(revoked_agents, agent_id)
       THEN /\ last' = [NoResult EXCEPT !.op = "reinstate_agent", !.agent_id = agent_id,
                                        !.message = "is not currently revoked"]
            /\ UNCHANGED revoked_agents
       ELSE /\ revoked_agents' = db_reinstate_agent(revoked_agents, agent_id)
            /\ last' = [NoResult EXCEPT !.op = "reinstate_agent", !.agent_id = agent_id,
                                        !.message = "has been successfully reinstated"]
    /\ UNCHANGED <<calls, agent_behavior, transactions, tampered_agents, now, mandates>>

\* A direct db.revoke_agent call (an operator revoking by hand).
RevokeAgentUpTo(limit, agent_id) ==
    /\ now < limit
    /\ revoked_agents' = revoke_agent(revoked_agents, agent_id, ManualRevokeReason, now + 1)
    /\ now' = now + 1
    /\ last' = [NoResult EXCEPT !.op = "revoke_agent", !.agent_id = agent_id]
    /\ UNCHANGED <<calls, agent_behavior, transactions, tampered_agents, mandates>>

RevokeAgent(agent_id) == RevokeAgentUpTo(MaxNow, agent_id)

\* Variant: the evaluator revokes the agent it classifies REVOKE.
EvaluateAgentIntegrity_revoking(agent_id, current_vote_amount, last_known_hash) ==
    /\ LET integrity == _evaluate_agent_integrity(agent_behavior, tampered_agents, agent_id,
                                                  current_vote_amount, last_known_hash)
       IN  /\ last' = [NoResult EXCEPT !.op = "evaluate_agent_integrity",
                                       !.agent_id = agent_id,
                                       !.amount = current_vote_amount,
                                       !.last_known_hash = last_known_hash,
                                       !.action = integrity.action,
                                       !.confidence = integrity.confidence]
           /\ revoked_agents' = IF integrity.action = "REVOKE"
                                THEN revoke_agent(revoked_agents, agent_id,
                                                  AutoRevokeReason, now)
                                ELSE revoked_agents
    /\ UNCHANGED <<calls, agent_behavior, transactions, tampered_agents, now, mandates>>

\* The has_weights_tampered tool.
HasWeightsTampered(agent_id, last_known_hash) ==
    /\ last' = [NoResult EXCEPT
                    !.op = "has_weights_tampered",
                    !.agent_id = agent_id,
                    !.last_known_hash = last_known_hash,
                    !.tampered = _has_weights_tampered(tampered_agents, agent_id,
                                                       last_known_hash)]
    /\ UNCHANGED <<calls, agent_behavior, revoked_agents, transactions, tampered_agents, now,
                   mandates>>

\* The evaluate_agent_integrity tool.
EvaluateAgentIntegrity(agent_id, current_vote_amount, last_known_hash) ==
    /\ LET integrity == _evaluate_agent_integrity(agent_behavior, tampered_agents, agent_id,
                                                  current_vote_amount, last_known_hash)
       IN  last' = [NoResult EXCEPT !.op = "evaluate_agent_integrity",
                                    !.agent_id = agent_id,
                                    !.amount = current_vote_amount,
                                    !.last_known_hash = last_known_hash,
                                    !.action = integrity.action,
                                    !.confidence = integrity.confidence]
    /\ UNCHANGED <<calls, agent_behavior, revoked_agents, transactions, tampered_agents, now, mandates>>

\* simulate_vote called on an engine whose agent list is agents.
EngineSimulateVote(agents, amount, merchant) ==
    /\ LET result == simulate_vote(agents, amount, merchant)
       IN  last' = [NoResult EXCEPT !.op = "simulate_vote",
                                    !.engine_agents = agents,
                                    !.amount = amount, !.merchant = merchant,
                                    !.transaction_id = result.transaction_id,
                                    !.status = result.status,
                                    !.votes = result.votes,
                                    !.approval_rate = result.approval_rate,
                                    !.required_threshold = result.required_threshold]
    /\ UNCHANGED <<calls, agent_behavior, revoked_agents, transactions, tampered_agents, now, mandates>>

(***************************************************************************)
(* Direct calls of the ledger store, with the sqlite error a call can meet *)
(***************************************************************************)
\* Where a store call can meet an sqlite3.Error: opening the connection,
\* executing its statement, committing.
Faults == {"none", "connect", "execute", "commit"}

\* DatabaseManager._get_cursor around one statement that turns the table
\* before into after.  sqlite3.connect is called before the try block, so
\* its error reaches the caller as it is; an error of the statement or of
\* the commit is rolled back and raised again as RuntimeError.
_get_cursor(tbl_before, tbl_after, fault) ==
    CASE fault = "none" -> [tbl |-> tbl_after, outcome |-> "returned"]
      [] fault = "connect" -> [tbl |-> tbl_before, outcome |-> "sqlite3.OperationalError"]
      [] fault = "execute" -> [tbl |-> tbl_before, outcome |-> "RuntimeError"]
      [] fault = "commit" -> [tbl |-> tbl_before, outcome |-> "RuntimeError"]

\* datetime.now() is an argument of the statement: it is read once the
\* connection is open.
ClockAfter(fault) == IF fault = "connect" THEN now ELSE now + 1

DbLogAgentVoteUpTo(limit, agent_id, tx_id, vote, amount, fault) ==
    /\ now < limit
    /\ LET out == _get_cursor(agent_behavior,
                              log_agent_vote(agent_behavior, agent_id, tx_id, vote,
                                             amount, now + 1),
                              fault)
       IN  /\ agent_behavior' = out.tbl
           /\ last' = [NoResult EXCEPT !.op = "db.log_agent_vote",
                                       !.agent_id = agent_id,
                                       !.transaction_id = tx_id,
                                       !.amount = amount,
                                       !.message = vote,
                                       !.status = out.outcome]
    /\ now' = ClockAfter(fault)
    /\ UNCHANGED <<calls, revoked_agents, transactions, tampered_agents, mandates>>

DbLogAgentVote(agent_id, tx_id, vote, amount, fault) ==
    DbLogAgentVoteUpTo(MaxStoreNow, agent_id, tx_id, vote, amount, fault)

DbLogTransaction(tx_id, status, fault) ==
    /\ now < MaxStoreNow
    /\ LET out == _get_cursor(transactions,
                              log_transaction(transactions, tx_id, tx_id.amount,
                                              tx_id.merchant, status, now + 1),
                              fault)
       IN  /\ transactions' = out.tbl
           /\ last' = [NoResult EXCEPT !.op = "db.log_transaction",
                                       !.transaction_id = tx_id,
                                       !.amount = tx_id.amount,
                                       !.merchant = tx_id.merchant,
                                       !.message = status,
                                       !.status = out.outcome]
    /\ now' = ClockAfter(fault)
    /\ UNCHANGED <<calls, agent_behavior, revoked_agents, tampered_agents, mandates>>

DbRevokeAgent(agent_id, reason, fault) ==
    /\ now < MaxStoreNow
    /\ LET out == _get_cursor(revoked_agents,
                              revoke_agent(revoked_agents, agent_id, reason, now + 1),
                              fault)
       IN  /\ revoked_agents' = out.tbl
           /\ last' = [NoResult EXCEPT !.op = "db.revoke_agent",
                                       !.agent_id = agent_id,
                                       !.message = reason,
                                       !.status = out.outcome]
    /\ now' = ClockAfter(fault)
    /\ UNCHANGED <<calls, agent_behavior, transactions, tampered_agents, mandates>>

DbReinstateAgent(agent_id, fault) ==
    /\ LET out == _get_cursor(revoked_agents,
                              db_reinstate_agent(revoked_agents, agent_id),
                              fault)
       IN  /\ revoked_agents' = out.tbl
           /\ last' = [NoResult EXCEPT !.op = "db.reinstate_agent",
                                       !.agent_id = agent_id,
                                       !.status = out.outcome]
    /\ UNCHANGED <<calls, agent_behavior, transactions, tampered_agents, now, mandates>>

(***************************************************************************)
(* execute_with_consensus when one of its store writes raises              *)
(***************************************************************************)
\* The store writes a call makes, in program order: db.revoke_agent for each
\* agent classified REVOKE, db.log_agent_vote for each vote, then
\* db.log_transaction; db.log_transaction alone on the bypass; the
\* revocations alone when the call is BLOCKED.
ExecWrites(amount, merchant) ==
    IF amount < 10000
    THEN <<[kind |-> "tx", agent_id |-> "", tx_id |-> auto_tx_id(amount, merchant, now + 1),
            vote |-> "", status |-> "approved"]>>
    ELSE
        LET st == IntegrityLoop(1, amount,
                    [revoked |-> revoked_agents, now |-> now, active |-> <<>>,
                     log |-> <<>>, integrity |-> <<>>])
            compromised == SelectSeq(st.integrity, LAMBDA e : e.action = "REVOKE")
            revokes == [i \in 1..Len(compromised) |->
                            [kind |-> "revoke", agent_id |-> compromised[i].agent_id,
                             tx_id |-> NoTx, vote |-> "", status |-> ""]]
        IN  IF no_active_agents(st.active) THEN revokes
            ELSE
                LET result == simulate_vote(st.active, amount, merchant)
                    votes == [i \in 1..Len(result.votes) |->
                                [kind |-> "vote", agent_id |-> result.votes[i].agent_id,
                                 tx_id |-> result.transaction_id,
                                 vote |-> result.votes[i].vote, status |-> ""]]
                IN  revokes \o votes
                        \o <<[kind |-> "tx", agent_id |-> "",
                              tx_id |-> result.transaction_id, vote |-> "",
                              status |-> result.status]>>

\* One store write applied to st = the three tables and the clock.
ApplyWrite(w, amount, merchant, st) ==
    CASE w.kind = "revoke" ->
            [st EXCEPT !.revoked = revoke_agent(@, w.agent_id, AutoRevokeReason, st.now + 1),
                       !.now = @ + 1]
      [] w.kind = "vote" ->
            [st EXCEPT !.votes = log_agent_vote(@, w.agent_id, w.tx_id, w.vote, amount,
                                                st.now + 1),
                       !.now = @ + 1]
      [] w.kind = "tx" ->
            [st EXCEPT !.txs = log_transaction(@, w.tx_id, amount, merchant, w.status,
                                               st.now + 1),
                       !.now = @ + 1]

\* Variant: a failing call undoes the writes it has made.
WritesBefore_compensated(writes, k) == <<>>

\* The writes that completed before the k-th one raised: the call has no
\* try block, so the exception leaves it there and nothing is undone.
WritesBefore(writes, k) == SubSeq(writes, 1, k - 1)

RECURSIVE ApplyWrites(_, _, _, _, _)
ApplyWrites(writes, i, amount, merchant, st) ==
    IF i > Len(writes) THEN st
    ELSE ApplyWrites(writes, i + 1, amount, merchant,
                     ApplyWrite(writes[i], amount, merchant, st))

\* The call whose k-th store write meets fault.  last reports the exception,
\* the failing write (action, agent_id) and what the call had computed.
ExecuteWithConsensusFailing(limit, amount, merchant, k, fault) ==
    /\ now < limit
    /\ fault # "none"
    /\ \E writes \in {ExecWrites(amount, merchant)} :
           /\ k \in 1..Len(writes)
           /\ \E start \in {[revoked |-> revoked_agents, votes |-> agent_behavior,
                              txs |-> transactions,
                              now |-> IF amount < 10000 THEN now + 1 ELSE now]},
                 full \in {IntegrityLoop(1, amount,
                            [revoked |-> revoked_agents, now |-> now, active |-> <<>>,
                             log |-> <<>>, integrity |-> <<>>])} :
              \E st \in {ApplyWrites(WritesBefore(writes, k), 1, amount, merchant, start)},
                 failed \in {writes[k]} :
              LET upto == IF failed.kind = "revoke"
                          THEN CHOOSE j \in 1..Len(full.integrity) :
                                    full.integrity[j].agent_id = failed.agent_id
                          ELSE Len(full.integrity)
              IN  /\ revoked_agents' = st.revoked
                  /\ agent_behavior' = st.votes
                  /\ transactions' = st.txs
                  /\ now' = IF fault = "connect" THEN st.now ELSE st.now + 1
                  /\ last' = [NoResult EXCEPT
                                !.op = "execute_with_consensus",
                                !.amount = amount, !.merchant = merchant,
                                !.status = _get_cursor({}, {}, fault).outcome,
                                !.action = failed.kind,
                                !.agent_id = failed.agent_id,
                                !.transaction_id = failed.tx_id,
                                !.votes = IF failed.kind = "revoke" THEN <<>>
                                          ELSE simulate_vote(full.active, amount,
                                                             merchant).votes,
                                !.integrity = SubSeq(full.integrity, 1, upto)]
    /\ UNCHANGED <<calls, tampered_agents, mandates>>

(***************************************************************************)
(* Risk scoring and merchant-locked cards (main.py)                        *)
(***************************************************************************)
\* str.strip() on the merchant names in use.
Strip(merchant) ==
    CASE merchant = "   " -> ""
      [] merchant = " Amazon " -> "Amazon"
      [] OTHER -> merchant

\* not merchant or not merchant.strip()
merchant_missing(merchant) == merchant = "" \/ Strip(merchant) = ""

risk_known_merchants == {"amazon", "netflix", "stripe", "uber", "github", "apple", "google"}

\* typical_spend.get(merchant.lower(), 50), in dollars
typical_spend(merchant) ==
    CASE Lower(merchant) = "netflix" -> 15
      [] Lower(merchant) = "spotify" -> 10
      [] Lower(merchant) = "amazon" -> 50
      [] Lower(merchant) = "uber" -> 25
      [] OTHER -> 50

\* round(x / 1250) to the nearest integer, ties to even.
RoundTenths(x) ==
    LET q == x \div 1250
        r == x % 1250
    IN  IF 2 * r > 1250 \/ (2 * r = 1250 /\ q % 2 = 1) THEN q + 1 ELSE q

\* _calculate_fraud_score.  The score is in tenths of a point: the amount
\* part is min(amount / 125, 40), which is min(cents, 500000) / 1250 tenths.
_calculate_fraud_score(amount, merchant, hour) ==
    LET amount_part == Min(amount, 500000)
        time_score == IF 0 <= hour /\ hour <= 5 THEN 30 ELSE 0
        merchant_score == IF Lower(merchant) \notin risk_known_merchants THEN 30 ELSE 0
        anomaly_score == IF amount > typical_spend(merchant) * 20 * 100 THEN 25 ELSE 0
        fixed == time_score + merchant_score + anomaly_score
        total_score == IF amount_part + fixed * 12500 >= 100 * 12500
                       THEN 1000
                       ELSE RoundTenths(amount_part) + fixed * 10
    IN  [score |-> total_score,
         level |-> IF total_score < 300 THEN "low"
                   ELSE IF total_score <= 600 THEN "medium" ELSE "high"]

\* The validation at the head of score_payment_risk; "" when the input passes.
risk_input_error(amount, merchant, hour) ==
    IF merchant_missing(merchant) THEN "Error: Merchant name required"
    ELSE IF amount <= 0 THEN "Error: Amount must be positive"
    ELSE IF ~(0 <= hour /\ hour <= 23) THEN "Error: Hour must be UTC (0-23)"
    ELSE ""

\* The score_payment_risk tool.
ScorePaymentRisk(amount, merchant, hour) ==
    /\ LET error == risk_input_error(amount, merchant, hour)
           result == _calculate_fraud_score(amount, Strip(merchant), hour)
           recommendation == IF result.score > 600 THEN "Block"
                             ELSE IF result.score >= 300 THEN "Review"
                             ELSE "Auto-approve"
           call == [NoResult EXCEPT !.op = "score_payment_risk", !.amount = amount,
                                    !.merchant = merchant, !.hour = hour]
       IN  last' = IF error # ""
                   THEN [call EXCEPT !.message = error]
                   ELSE [call EXCEPT !.message = "Risk Assessment Report",
                                     !.score = result.score,
                                     !.level = Upper(result.level),
                                     !.recommendation = recommendation]
    /\ UNCHANGED <<calls, agent_behavior, revoked_agents, transactions, mandates,
                   tampered_agents, now>>

\* Variant: the card tool does not check its input.
card_input_error_unchecked(amount, merchant) == ""

\* The validation at the head of create_merchant_locked_card.
card_input_error(amount, merchant) ==
    IF merchant_missing(merchant) THEN "Error: Merchant name required"
    ELSE IF amount <= 0 THEN "Error: Amount must be positive"
    ELSE ""

\* INSERT INTO mandates: the agent_id column takes the card number; a second
\* row with the same id is an sqlite3.IntegrityError.
create_mandate(tbl, mandate_id, card_number, amount, merchant, ts) ==
    _get_cursor(tbl,
                tbl \cup {[id |-> mandate_id, agent_id |-> card_number, amount |-> amount,
                           merchant |-> merchant, created_at |-> ts]},
                IF \E r \in tbl : r.id = mandate_id THEN "execute" ELSE "none")

\* The create_merchant_locked_card tool; current_hour is datetime.now().hour,
\* card_suffix and mandate_number are the two random.randint draws.
CreateMerchantLockedCard(merchant, amount, current_hour, card_suffix, mandate_number) ==
    /\ now < MaxRiskNow
    /\ LET error == card_input_error(amount, merchant)
           risk == _calculate_fraud_score(amount, Strip(merchant), current_hour)
           call == [NoResult EXCEPT !.op = "create_merchant_locked_card",
                                    !.amount = amount, !.merchant = merchant,
                                    !.hour = current_hour]
           scored == [call EXCEPT !.score = risk.score]
       IN  IF error # ""
           THEN /\ last' = [call EXCEPT !.message = error]
                /\ UNCHANGED <<mandates, now>>
           ELSE IF risk.score > 700
           THEN /\ last' = [scored EXCEPT !.message = "Card creation BLOCKED"]
                /\ UNCHANGED <<mandates, now>>
           ELSE IF risk.score >= 300
           THEN /\ last' = [scored EXCEPT !.message = "Card requires MANUAL REVIEW"]
                /\ UNCHANGED <<mandates, now>>
           ELSE LET card_number == [prefix |-> "4000-00", suffix |-> card_suffix]
                    mandate_id == [kind |-> "mandate", n |-> mandate_number]
                    out == create_mandate(mandates, mandate_id, card_number, amount,
                                          merchant, now + 1)
                IN  /\ mandates' = out.tbl
                    /\ now' = now + 1
                    /\ last' = IF out.outcome = "returned"
                               THEN [scored EXCEPT
                                        !.message = "Card created successfully.",
                                        !.transaction_id = [NoTx EXCEPT !.kind = "mandate",
                                                                        !.n = mandate_number],
                                        !.level = "LOW"]
                               ELSE [scored EXCEPT !.status = out.outcome]
    /\ UNCHANGED <<calls, agent_behavior, revoked_agents, transactions, tampered_agents>>

\* A call of the get_exponential_baseline tool.
GetExponentialBaseline(agent_id, decay) ==
    /\ LET baseline == get_exponential_baseline(agent_behavior, agent_id, decay)
       IN  last' = [NoResult EXCEPT !.op = "get_exponential_baseline",
                                    !.agent_id = agent_id,
                                    !.decay = decay,
                                    !.ewma = baseline.ewma,
                                    !.sample_count = baseline.sample_count]
    /\ UNCHANGED <<calls, agent_behavior, revoked_agents, transactions, mandates,
                   tampered_agents, now>>

\* A direct db.get_recent_approved_amounts call.
DbGetRecentApprovedAmounts(agent_id, limit) ==
    /\ last' = [NoResult EXCEPT
                    !.op = "db.get_recent_approved_amounts",
                    !.agent_id = agent_id,
                    !.limit = limit,
                    !.amounts = get_recent_approved_amounts(agent_behavior, agent_id, limit)]
    /\ UNCHANGED <<calls, agent_behavior, revoked_agents, transactions, mandates,
                   tampered_agents, now>>

(***************************************************************************)
(* execute_with_consensus step by step (main.py), for calls in flight at   *)
(* the same time: the store calls of one call are separate steps, and so   *)
(* are the override of engine.agents, the vote and the restore.            *)
(***************************************************************************)
CallIds == {1, 2}

\* A call that has not started.  loop_agents is the list the for loop
\* iterates, engine_agents the agents attribute of the call's engine,
\* original_agents the local of that name, voters the list the vote ran on.
IdleCall ==
    [pc |-> "idle", amount |-> 0, merchant |-> "", i |-> 0,
     loop_agents |-> <<>>, engine_agents |-> <<>>, original_agents |-> <<>>,
     active |-> <<>>, log |-> <<>>, integrity |-> <<>>,
     voters |-> <<>>, votes |-> <<>>, k |-> 0,
     transaction_id |-> NoTx, status |-> ""]

\* Variant: one engine object shared by all calls.
EngineOf_shared(c) == 1

\* engine = ConsensusEngine(threshold=threshold): the engine is a local of
\* the call.
EngineOf(c) == c

\* The call after the loop body for its i-th agent: the next agent, or past
\* the loop "if not active_agents: return BLOCKED", else on to the vote.
AfterAgent(call) ==
    IF call.i < Len(call.loop_agents) THEN [call EXCEPT !.i = @ + 1, !.pc = "check"]
    ELSE IF no_active_agents(call.active)
         THEN [IdleCall EXCEPT !.pc = "done", !.amount = call.amount,
                               !.merchant = call.merchant, !.status = "BLOCKED"]
         ELSE [call EXCEPT !.i = @ + 1, !.pc = "override"]

\* The call starts: the engine is built and loads the roster; an amount
\* below $100 is logged approved at once, otherwise the loop begins.
CallBegin(limit, c, amount, merchant) ==
    /\ now < limit
    /\ calls[c].pc \in {"idle", "done"}
    /\ IF amount < 10000
       THEN LET tx_id == auto_tx_id(amount, merchant, now + 1)
            IN  /\ transactions' = log_transaction(transactions, tx_id, amount,
                                                   merchant, "approved", now + 2)
                /\ now' = now + 2
                /\ calls' = [calls EXCEPT ![c] =
                                [IdleCall EXCEPT !.pc = "done", !.amount = amount,
                                                 !.merchant = merchant,
                                                 !.transaction_id = tx_id,
                                                 !.status = "APPROVED"]]
       ELSE /\ calls' = [calls EXCEPT
                            ![c] = [IdleCall EXCEPT !.pc = "check", !.amount = amount,
                                                    !.merchant = merchant, !.i = 1,
                                                    !.loop_agents = Roster],
                            ![EngineOf(c)].engine_agents = Roster]
            /\ UNCHANGED <<transactions, now>>
    /\ UNCHANGED <<agent_behavior, revoked_agents, mandates, tampered_agents, last>>

\* One pass of the loop body up to the revocation write: is_agent_revoked,
\* then the integrity evaluation of an agent that is not revoked.
CallCheckAgent(c) ==
    /\ calls[c].pc = "check"
    /\ LET call == calls[c]
           agent_id == call.loop_agents[call.i]
           last_known_hash == get_model_weight_hash(agent_id)
           integrity == _evaluate_agent_integrity(agent_behavior, tampered_agents,
                                                  agent_id, call.amount, last_known_hash)
           seen == Append(call.integrity,
                          [agent_id |-> agent_id, action |-> integrity.action])
       IN  calls' = [calls EXCEPT ![c] =
                IF is_agent_revoked(revoked_agents, agent_id)
                THEN AfterAgent([call EXCEPT
                        !.log = Append(@, [agent_id |-> agent_id, event |-> "EXCLUDED"])])
                ELSE IF integrity.action = "REVOKE"
                THEN [call EXCEPT !.pc = "revoke", !.integrity = seen]
                ELSE AfterAgent([call EXCEPT
                        !.active = Append(@, agent_id),
                        !.log = IF integrity.action = "HOLD_ALERT"
                                THEN Append(@, [agent_id |-> agent_id, event |-> "ALERT"])
                                ELSE @,
                        !.integrity = seen])]
    /\ UNCHANGED <<agent_behavior, revoked_agents, transactions, mandates,
                   tampered_agents, now, last>>

\* db.revoke_agent for the agent just classified REVOKE.
CallRevoke(c) ==
    /\ calls[c].pc = "revoke"
    /\ LET call == calls[c]
           agent_id == call.loop_agents[call.i]
       IN  /\ revoked_agents' = revoke_agent(revoked_agents, agent_id, AutoRevokeReason,
                                             now + 1)
           /\ calls' = [calls EXCEPT ![c] = AfterAgent([call EXCEPT
                            !.log = Append(@, [agent_id |-> agent_id,
                                               event |-> "COMPROMISED"])])]
    /\ now' = now + 1
    /\ UNCHANGED <<agent_behavior, transactions, mandates, tampered_agents, last>>

\* original_agents = engine.agents; engine.agents = active_agents
CallOverride(c) ==
    /\ calls[c].pc = "override"
    /\ calls' = [calls EXCEPT
                    ![c].original_agents = calls[EngineOf(c)].engine_agents,
                    ![c].pc = "simulate_vote",
                    ![EngineOf(c)].engine_agents = calls[c].active]
    /\ UNCHANGED <<agent_behavior, revoked_agents, transactions, mandates,
                   tampered_agents, now, last>>

\* result = engine.simulate_vote(amount, merchant)
CallSimulateVote(c) ==
    /\ calls[c].pc = "simulate_vote"
    /\ LET agents == calls[EngineOf(c)].engine_agents
           result == simulate_vote(agents, calls[c].amount, calls[c].merchant)
       IN  calls' = [calls EXCEPT ![c].voters = agents,
                                  ![c].votes = result.votes,
                                  ![c].transaction_id = result.transaction_id,
                                  ![c].status = result.status,
                                  ![c].pc = "restore"]
    /\ UNCHANGED <<agent_behavior, revoked_agents, transactions, mandates,
                   tampered_agents, now, last>>

\* engine.agents = original_agents, then on to the vote records (straight
\* to the transaction record when no vote was cast).
CallRestore(c) ==
    /\ calls[c].pc = "restore"
    /\ calls' = [calls EXCEPT
                    ![EngineOf(c)].engine_agents = calls[c].original_agents,
                    ![c].k = 1,
                    ![c].pc = IF calls[c].votes = <<>> THEN "log_transaction"
                              ELSE "log_agent_vote"]
    /\ UNCHANGED <<agent_behavior, revoked_agents, transactions, mandates,
                   tampered_agents, now, last>>

\* db.log_agent_vote for the k-th vote of the result.
CallLogAgentVote(c) ==
    /\ calls[c].pc = "log_agent_vote"
    /\ LET call == calls[c]
           vote == call.votes[call.k]
       IN  /\ agent_behavior' = log_agent_vote(agent_behavior, vote.agent_id,
                                               call.transaction_id, vote.vote,
                                               call.amount, now + 1)
           /\ calls' = [calls EXCEPT
                            ![c].k = @ + 1,
                            ![c].pc = IF call.k < Len(call.votes) THEN "log_agent_vote"
                                      ELSE "log_transaction"]
    /\ now' = now + 1
    /\ UNCHANGED <<revoked_agents, transactions, mandates, tampered_agents, last>>

\* db.log_transaction, and the call returns its report: its locals are gone,
\* the record keeps what the report says of the transaction and its votes.
CallLogTransaction(c) ==
    /\ calls[c].pc = "log_transaction"
    /\ transactions' = log_transaction(transactions, calls[c].transaction_id,
                                       calls[c].amount, calls[c].merchant,
                                       calls[c].status, now + 1)
    /\ now' = now + 1
    /\ calls' = [calls EXCEPT ![c] =
                    [IdleCall EXCEPT !.pc = "done", !.amount = calls[c].amount,
                                     !.merchant = calls[c].merchant,
                                     !.transaction_id = calls[c].transaction_id,
                                     !.votes = calls[c].votes,
                                     !.status = Upper(calls[c].status)]]
    /\ UNCHANGED <<agent_behavior, revoked_agents, mandates, tampered_agents, last>>

(***************************************************************************)
(* Specifications                                                          *)
(***************************************************************************)
Init ==
    /\ agent_behavior = {}
    /\ revoked_agents = {}
    /\ transactions = {}
    /\ mandates = {}
    /\ tampered_agents = {}
    /\ now = 0
    /\ last = NoResult
    /\ calls = [c \in CallIds |-> IdleCall]

Next ==
    \/ \E amount \in Amounts, merchant \in Merchants : ExecuteWithConsensus(amount, merchant)
    \/ \E agent_id \in Agents : SimulateTampering(agent_id)
    \/ \E agent_id \in Agents : ReinstateAgent(agent_id)
    \/ \E agent_id \in Agents : RevokeAgent(agent_id)

Spec == Init /\ [][Next]_vars

\* The agent lists an engine can hold: the roster with any agents left out
\* (all of them when agents.json cannot be loaded).
EngineAgentLists ==
    {SelectSeq(Roster, LAMBDA a : a \in S) : S \in SUBSET Agents}

NextEngine ==
    \E agents \in EngineAgentLists, amount \in EngineAmounts, merchant \in Merchants :
        EngineSimulateVote(agents, amount, merchant)

SpecEngine == Init /\ [][NextEngine]_vars

HashInputs(agent_id) == {get_model_weight_hash(agent_id), StaleHash(agent_id)}

\* The evaluator reads the vote history and the tampered set only: the
\* calls that change them, and the evaluator itself.
NextEvaluator ==
    \/ \E amount \in Amounts, merchant \in Merchants : ExecuteWithConsensus(amount, merchant)
    \/ \E agent_id \in Agents : SimulateTampering(agent_id)
    \/ \E agent_id \in Agents, amount \in EvaluatorAmounts :
            \E h \in HashInputs(agent_id) : EvaluateAgentIntegrity(agent_id, amount, h)

SpecEvaluator == Init /\ [][NextEvaluator]_vars

(***************************************************************************)
(* Vocabulary of the properties                                            *)
(***************************************************************************)
RevokedIds(tbl) == {r.agent_id : r \in tbl}

VotersOf(res) == {res.votes[i].agent_id : i \in 1..Len(res.votes)}

ApproveCount(res) == Cardinality({i \in 1..Len(res.votes) : res.votes[i].vote = "approve"})

\* The classification an agent received in the call, if it was evaluated.
IntegrityOf(res, agent_id) ==
    IF \E i \in 1..Len(res.integrity) : res.integrity[i].agent_id = agent_id
    THEN LET i == CHOOSE j \in 1..Len(res.integrity) : res.integrity[j].agent_id = agent_id
         IN  res.integrity[i].action
    ELSE "NOT_EVALUATED"

\* The step is a consensus transaction (amount >= $100) whose result is last'.
ConsensusStep ==
    /\ last'.op = "execute_with_consensus"
    /\ last'.amount >= 10000

\* Vote rows written or rewritten by the step.
RowsWritten == agent_behavior' \ agent_behavior

(***************************************************************************)
(* C1: the integrity evaluator returns REVOKE/HIGH iff the behavioural     *)
(* anomaly and the tamper signal both hold, HOLD_ALERT/MEDIUM iff only the *)
(* anomaly holds, IGNORE/LOW iff only the tamper signal holds and          *)
(* APPROVE/HIGH iff neither, where the anomaly is: baseline > 0 and        *)
(* |amount - baseline| > 0.5 x baseline, the baseline being the EWMA of    *)
(* the agent's approved amounts and 0 when there are none.                 *)
(***************************************************************************)
C1_Baseline(agent_id) ==
    LET h == get_recent_approved_amounts(agent_behavior, agent_id, HistoryWindow)
    IN  IF h = <<>> THEN [num |-> 0, den |-> 1] ELSE EwmaOf(h)

C1_Anomaly(agent_id, amount) ==
    LET b == C1_Baseline(agent_id)
    IN  /\ b.num > 0
        /\ 2 * Abs(amount * b.den - b.num) > b.num

C1_Tampered(agent_id, hash) ==
    agent_id \in tampered_agents \/ hash # get_model_weight_hash(agent_id)

C1_DecisionMatrix ==
    last.op = "evaluate_agent_integrity" =>
        LET ba == C1_Anomaly(last.agent_id, last.amount)
            ht == C1_Tampered(last.agent_id, last.last_known_hash)
            out == <<last.action, last.confidence>>
        IN  /\ (out = <<"REVOKE", "HIGH">>) <=> (ba /\ ht)
            /\ (out = <<"HOLD_ALERT", "MEDIUM">>) <=> (ba /\ ~ht)
            /\ (out = <<"IGNORE", "LOW">>) <=> (~ba /\ ht)
            /\ (out = <<"APPROVE", "HIGH">>) <=> (~ba /\ ~ht)
            /\ out \in {<<"REVOKE", "HIGH">>, <<"HOLD_ALERT", "MEDIUM">>,
                        <<"IGNORE", "LOW">>, <<"APPROVE", "HIGH">>}
            \* baseline exactly $100: $200 is anomalous, $120 is not
            /\ C1_Baseline(last.agent_id) = [num |-> 10000, den |-> 1] =>
                    /\ (last.amount = 20000 /\ ht => out[1] = "REVOKE")
                    /\ (last.amount = 20000 /\ ~ht => out[1] = "HOLD_ALERT")
                    /\ (last.amount = 12000 /\ ht => out[1] = "IGNORE")
                    /\ (last.amount = 12000 /\ ~ht => out[1] = "APPROVE")

\* A tampered agent with baseline $100 was evaluated on $200 and revoked.
C1_Witness ==
    /\ last.op = "evaluate_agent_integrity"
    /\ C1_Baseline(last.agent_id) = [num |-> 10000, den |-> 1]
    /\ last.amount = 20000
    /\ last.agent_id \in tampered_agents
    /\ last.action = "REVOKE"

(***************************************************************************)
(* C2: in a consensus transaction every agent classified REVOKE gets a     *)
(* revocation record and casts no vote, exactly the other agents that were *)
(* not revoked before vote, and with one agent classified REVOKE out of a  *)
(* fully active roster of three the other two decide approved or rejected. *)
(***************************************************************************)
C2_RevokedNowExcluded ==
    [][ConsensusStep =>
            LET classified == {a \in Agents : IntegrityOf(last', a) = "REVOKE"}
                previously == RevokedIds(revoked_agents)
            IN  /\ \A a \in classified :
                    /\ \E r \in revoked_agents' :
                            r.agent_id = a /\ r.reason = AutoRevokeReason
                    /\ a \notin VotersOf(last')
                    /\ \A r \in RowsWritten : r.agent_id # a
                /\ VotersOf(last') = Agents \ (previously \cup classified)
                /\ (previously = {} /\ Cardinality(classified) = 1) =>
                        /\ Cardinality(VotersOf(last')) = 2
                        /\ last'.status \in {"APPROVED", "REJECTED"}
       ]_vars

\* One of three active agents was revoked by the transaction, two voted.
C2_Witness ==
    /\ last.op = "execute_with_consensus"
    /\ Len(last.integrity) = 3
    /\ Cardinality({a \in Agents : IntegrityOf(last, a) = "REVOKE"}) = 1
    /\ Len(last.votes) = 2
    /\ last.status \in {"APPROVED", "REJECTED"}
    /\ \A a \in Agents : IntegrityOf(last, a) = "REVOKE" => a \in RevokedIds(revoked_agents)

(***************************************************************************)
(* C3: an agent that has a revocation record when a consensus transaction  *)
(* checks the roster is not evaluated and casts no vote; its record is     *)
(* removed by reinstate_agent only; the agents that remain active reach an *)
(* approved or rejected outcome.                                           *)
(***************************************************************************)
C3_RevokedStayExcluded ==
    [][/\ ConsensusStep =>
            /\ \A a \in RevokedIds(revoked_agents) :
                    /\ IntegrityOf(last', a) = "NOT_EVALUATED"
                    /\ a \notin VotersOf(last')
                    /\ \A r \in RowsWritten : r.agent_id # a
            /\ Agents \ RevokedIds(revoked_agents') # {} =>
                    /\ last'.status \in {"APPROVED", "REJECTED"}
                    /\ VotersOf(last') = Agents \ RevokedIds(revoked_agents')
       /\ \A a \in RevokedIds(revoked_agents) \ RevokedIds(revoked_agents') :
            last'.op = "reinstate_agent" /\ last'.agent_id = a
      ]_vars

\* A transaction ran while an agent was revoked: the agent was skipped and
\* the others voted.
C3_Witness ==
    /\ last.op = "execute_with_consensus"
    /\ last.consensus = "vote"
    /\ \E i \in 1..Len(last.revocation_log) :
            /\ last.revocation_log[i].event = "EXCLUDED"
            /\ last.revocation_log[i].agent_id \in RevokedIds(revoked_agents)
            /\ last.revocation_log[i].agent_id \notin VotersOf(last)
    /\ Len(last.votes) = 2

(***************************************************************************)
(* C4: while no agent has ever been tampered, a consensus transaction      *)
(* writes no revocation record, whatever the amount: an anomalous agent is *)
(* classified HOLD_ALERT, never REVOKE.                                    *)
(***************************************************************************)
C4_NoRevocationWithoutTamper ==
    [][(last'.op = "execute_with_consensus" /\ tampered_agents' = {}) =>
            /\ revoked_agents' = revoked_agents
            /\ \A a \in Agents : IntegrityOf(last', a) # "REVOKE"
       ]_vars

\* An untampered agent drifted far from its baseline and was only alerted.
C4_Witness ==
    /\ last.op = "execute_with_consensus"
    /\ tampered_agents = {}
    /\ \E a \in Agents : IntegrityOf(last, a) = "HOLD_ALERT"
    /\ \A r \in revoked_agents : r.reason # AutoRevokeReason

(***************************************************************************)
(* C5: an agent classified HOLD_ALERT, IGNORE or APPROVE in a consensus    *)
(* transaction stays active: it had and gets no revocation record, it      *)
(* votes, and the revocation table holds for it after the transaction what *)
(* it held before.                                                         *)
(***************************************************************************)
C5_NonRevokeStaysActive ==
    [][ConsensusStep =>
            \A a \in Agents :
                IntegrityOf(last', a) \in {"HOLD_ALERT", "IGNORE", "APPROVE"} =>
                    /\ a \notin RevokedIds(revoked_agents')
                    /\ {r \in revoked_agents' : r.agent_id = a}
                            = {r \in revoked_agents : r.agent_id = a}
                    /\ a \in VotersOf(last')
                    /\ \E r \in RowsWritten :
                            /\ r.agent_id = a
                            /\ r.transaction_id = last'.transaction_id
       ]_vars

\* One transaction classified an agent HOLD_ALERT and another IGNORE; both
\* voted and neither is revoked.
C5_Witness ==
    /\ last.op = "execute_with_consensus"
    /\ \E a, b \in Agents :
            /\ IntegrityOf(last, a) = "HOLD_ALERT"
            /\ IntegrityOf(last, b) = "IGNORE"
            /\ {a, b} \subseteq VotersOf(last)
            /\ {a, b} \cap RevokedIds(revoked_agents) = {}

(***************************************************************************)
(* C6: when every roster agent is already revoked or classified REVOKE, a  *)
(* consensus transaction returns BLOCKED, no vote is taken and neither a   *)
(* vote row nor a transaction row is written.                              *)
(***************************************************************************)
C6_BlockedWhenNoneActive ==
    [][(/\ ConsensusStep
        /\ \A a \in Agents : \/ a \in RevokedIds(revoked_agents)
                             \/ IntegrityOf(last', a) = "REVOKE") =>
            /\ last'.status = "BLOCKED"
            /\ last'.status \notin {"APPROVED", "REJECTED"}
            /\ last'.votes = <<>>
            /\ agent_behavior' = agent_behavior
            /\ transactions' = transactions
       ]_vars

\* A transaction was blocked after revoking the last active agent.
C6_Witness ==
    /\ last.op = "execute_with_consensus"
    /\ last.status = "BLOCKED"
    /\ \E a \in Agents : IntegrityOf(last, a) = "REVOKE"
    /\ RevokedIds(revoked_agents) = Agents

(***************************************************************************)
(* C7: simulate_vote on an engine without agents refuses to vote: it       *)
(* signals a no-quorum condition and returns neither approved nor rejected *)
(* for any amount.                                                         *)
(***************************************************************************)
C7_EngineRefusesEmptyRoster ==
    (last.op = "simulate_vote" /\ last.engine_agents = <<>>) =>
        last.status \notin {"approved", "rejected"}

C9_ExactHundredDecidedByVotes ==
    (/\ last.op = "execute_with_consensus"
     /\ last.amount = 10000
     /\ last.votes # <<>>
     \* the rate is below 0.665, so it rounds to less than 0.67
     /\ 200 * ApproveCount(last) + Len(last.votes) < 134 * Len(last.votes)) =>
        /\ last.required_threshold = 67
        /\ last.status = "REJECTED"

(***************************************************************************)
(* C10: with at least one vote cast, the status is approved iff the        *)
(* approval rate rounded to the nearest hundredth reaches the threshold:   *)
(* 2 of 3 is approved against 0.67 and rejected against 0.80, 1 of 2 is    *)
(* rejected against 0.67.                                                  *)
(***************************************************************************)
C10_RoundedComparison ==
    (last.op = "simulate_vote" /\ last.votes # <<>>) =>
        LET a == ApproveCount(last)
            t == Len(last.votes)
            T == last.required_threshold
            \* k is the hundredth nearest to a/t
            nearest(k) == 2 * Abs(100 * a - k * t) <= t
        IN  /\ last.status = "approved" <=> \E k \in T..100 : nearest(k)
            /\ last.status \in {"approved", "rejected"}
            /\ (a = 2 /\ t = 3 /\ T = 67) => last.status = "approved"
            /\ (a = 2 /\ t = 3 /\ T = 80) => last.status = "rejected"
            /\ (a = 1 /\ t = 2 /\ T = 67) => last.status = "rejected"

\* A 2-of-3 vote passed the 67% threshold.
C10_Witness ==
    /\ last.op = "simulate_vote"
    /\ ApproveCount(last) = 2
    /\ Len(last.votes) = 3
    /\ last.required_threshold = 67
    /\ last.approval_rate = 67
    /\ last.status = "approved"

(***************************************************************************)
(* C11: the approval rate the engine reports is the number of approve      *)
(* votes over the number of votes cast, one vote per agent of the list the *)
(* engine holds and none for an agent left out of it; review and reject    *)
(* votes count as non-approval.                                            *)
(***************************************************************************)
C11_RateOverVotesCast ==
    (last.op = "simulate_vote" /\ last.engine_agents # <<>>) =>
        LET cast == Len(last.votes)
            approves == Cardinality({i \in 1..cast : last.votes[i].vote = "approve"})
            others == Cardinality({i \in 1..cast :
                                        last.votes[i].vote \in {"review", "reject"}})
        IN  /\ cast = Len(last.engine_agents)
            /\ \A i \in 1..cast : last.votes[i].agent_id = last.engine_agents[i]
            /\ approves + others = cast
            \* the reported rate is the hundredth nearest to approves / cast
            /\ 2 * Abs(100 * approves - last.approval_rate * cast) <= cast

\* Two agents voted, the third was left out: one approve and one reject
\* give a rate of 0.50.
C11_Witness ==
    /\ last.op = "simulate_vote"
    /\ Len(last.engine_agents) = 2
    /\ \E i \in 1..Len(last.votes) : last.votes[i].vote = "reject"
    /\ \E i \in 1..Len(last.votes) : last.votes[i].vote = "approve"
    /\ last.approval_rate = 50

(***************************************************************************)
(* The store on its own: direct calls of its write operations, each with   *)
(* every sqlite error it can meet, and the reinstate_agent tool.           *)
(***************************************************************************)
NextStore ==
    \/ \E agent_id \in Agents, tx_id \in StoreTxIds, vote \in StoreVotes,
          amount \in StoreAmounts, fault \in Faults :
            DbLogAgentVote(agent_id, tx_id, vote, amount, fault)
    \/ \E tx_id \in StoreTxIds, status \in StoreStatuses, fault \in Faults :
            DbLogTransaction(tx_id, status, fault)
    \/ \E agent_id \in Agents, reason \in RevokeReasons, fault \in Faults :
            DbRevokeAgent(agent_id, reason, fault)
    \/ \E agent_id \in Agents, fault \in Faults : DbReinstateAgent(agent_id, fault)
    \/ \E agent_id \in Agents : ReinstateAgent(agent_id)

SpecStore == Init /\ [][NextStore]_vars

(***************************************************************************)
(* C12: revoking and reinstating are idempotent.  Reinstating an agent     *)
(* that is not revoked, through the tool or through the store, changes no  *)
(* table and raises nothing (the tool answers "is not currently revoked"); *)
(* revoking an agent that is already revoked leaves exactly one record for *)
(* it, holding the reason and time of the latest call, and leaves the      *)
(* other agents' records alone.                                            *)
(***************************************************************************)
C12_RevocationIdempotent ==
    [][ /\ (/\ last'.op = "reinstate_agent"
            /\ ~is_agent_revoked(revoked_agents, last'.agent_id)) =>
                /\ revoked_agents' = revoked_agents
                /\ agent_behavior' = agent_behavior
                /\ transactions' = transactions
                /\ last'.message = "is not currently revoked"
        /\ (/\ last'.op = "db.reinstate_agent"
            /\ last'.status = "returned"
            /\ ~is_agent_revoked(revoked_agents, last'.agent_id)) =>
                /\ revoked_agents' = revoked_agents
                /\ agent_behavior' = agent_behavior
                /\ transactions' = transactions
        /\ (/\ last'.op = "db.revoke_agent"
            /\ last'.status = "returned"
            /\ is_agent_revoked(revoked_agents, last'.agent_id)) =>
                /\ {r \in revoked_agents' : r.agent_id = last'.agent_id}
                      = {[agent_id |-> last'.agent_id, reason |-> last'.message,
                          revoked_at |-> now']}
                /\ {r \in revoked_agents' : r.agent_id # last'.agent_id}
                      = {r \in revoked_agents : r.agent_id # last'.agent_id}
      ]_vars

\* The tool has just been asked to reinstate an agent that is not revoked,
\* while another agent holds a record written by the second revoke call.
C12_Witness ==
    /\ last.op = "reinstate_agent"
    /\ last.message = "is not currently revoked"
    /\ ~is_agent_revoked(revoked_agents, last.agent_id)
    /\ \E r \in revoked_agents :
            r.agent_id # last.agent_id /\ r.reason = "Performance" /\ r.revoked_at = 2

(***************************************************************************)
(* The revocation table: consensus transactions that reach a vote at a     *)
(* known merchant, tampering, manual revocations and reinstate_agent.      *)
(***************************************************************************)
NextRevocation ==
    \/ \E amount \in ConsensusAmounts : ExecuteWithConsensus(amount, "Amazon")
    \/ \E agent_id \in Agents : SimulateTampering(agent_id)
    \/ \E agent_id \in Agents : ReinstateAgent(agent_id)
    \/ \E agent_id \in Agents : RevokeAgent(agent_id)

SpecRevocation == Init /\ [][NextRevocation]_vars

(***************************************************************************)
(* C13: revoke then reinstate is a round trip.  Once reinstate_agent has   *)
(* acted on a revoked agent, is_agent_revoked is false for it and the      *)
(* get_compromised_agents report has no entry for it; and in a consensus   *)
(* transaction (amount >= $100) every agent without a revocation record    *)
(* when the transaction starts, a reinstated one included, is evaluated    *)
(* and votes unless that transaction classifies it REVOKE.                 *)
(***************************************************************************)
C13_RevokeReinstateRoundTrip ==
    [][ /\ (/\ last'.op = "reinstate_agent"
            /\ is_agent_revoked(revoked_agents, last'.agent_id)) =>
                /\ ~is_agent_revoked(revoked_agents', last'.agent_id)
                /\ \A e \in get_compromised_agents(revoked_agents').entries :
                        e.agent_id # last'.agent_id
                /\ last'.message = "has been successfully reinstated"
        /\ ConsensusStep =>
                \A a \in Agents :
                    ~is_agent_revoked(revoked_agents, a) =>
                        /\ IntegrityOf(last', a) # "NOT_EVALUATED"
                        /\ (a \in VotersOf(last')) <=> (IntegrityOf(last', a) # "REVOKE")
      ]_vars

\* The whole roster has just voted although an earlier consensus
\* transaction was voted by two agents only: the agent excluded then has
\* been reinstated in between.
C13_Witness ==
    /\ last.op = "execute_with_consensus"
    /\ VotersOf(last) = Agents
    /\ revoked_agents = {}
    /\ \E t \in transactions : t.id.kind = "vote" /\ t.id.n = 2

(***************************************************************************)
(* C14: an agent's revocation state moves ACTIVE -> REVOKED -> ACTIVE      *)
(* only.  An agent gets a revocation record only in a consensus            *)
(* transaction that classifies it REVOKE or by a direct revoke_agent call  *)
(* on it; it loses its record only by reinstate_agent on it; and no        *)
(* execute_with_consensus call removes or alters a revocation record.      *)
(***************************************************************************)
C14_RevocationStateMachine ==
    [][ /\ \A a \in Agents :
            /\ (a \notin RevokedIds(revoked_agents) /\ a \in RevokedIds(revoked_agents')) =>
                    \/ ConsensusStep /\ IntegrityOf(last', a) = "REVOKE"
                    \/ last'.op = "revoke_agent" /\ last'.agent_id = a
            /\ (a \in RevokedIds(revoked_agents) /\ a \notin RevokedIds(revoked_agents')) =>
                    last'.op = "reinstate_agent" /\ last'.agent_id = a
        /\ last'.op = "execute_with_consensus" => revoked_agents \subseteq revoked_agents'
      ]_vars

\* A tampered agent that was revoked has just been made active again by
\* reinstate_agent; a consensus transaction was voted by two agents only
\* while it was out, and no agent is revoked any more.
C14_Witness ==
    /\ last.op = "reinstate_agent"
    /\ last.message = "has been successfully reinstated"
    /\ last.agent_id \in tampered_agents
    /\ last.agent_id \notin RevokedIds(revoked_agents)
    /\ \E t \in transactions : t.id.kind = "vote" /\ t.id.n = 2
    /\ revoked_agents = {}

(***************************************************************************)
(* C15: the evaluator finds a behavioural anomaly (HOLD_ALERT or REVOKE)   *)
(* exactly when the baseline is positive and the amount differs from it by *)
(* strictly more than half of it, in either direction: with baseline $100, *)
(* $150 and $50 are not anomalous, $150.01 and $49.99 are; an agent        *)
(* without approved history (baseline 0) is never anomalous.               *)
(***************************************************************************)
C15_StrictHalfBaselineBand ==
    last.op = "evaluate_agent_integrity" =>
        LET h == get_recent_approved_amounts(agent_behavior, last.agent_id, HistoryWindow)
            baseline == IF h = <<>> THEN [num |-> 0, den |-> 1] ELSE EwmaOf(h)
            above == last.amount * baseline.den - baseline.num
            below == baseline.num - last.amount * baseline.den
            anomalous == last.action \in {"HOLD_ALERT", "REVOKE"}
        IN  /\ anomalous <=>
                    /\ baseline.num > 0
                    /\ 2 * above > baseline.num \/ 2 * below > baseline.num
            /\ (baseline.num <= 0) => ~anomalous
            /\ (baseline.num = 10000 * baseline.den) =>
                    /\ last.amount \in {5000, 15000} => ~anomalous
                    /\ last.amount \in {4999, 15001} => anomalous

\* An agent with baseline $100 was evaluated on $49.99 and found anomalous.
C15_Witness ==
    /\ last.op = "evaluate_agent_integrity"
    /\ get_recent_approved_amounts(agent_behavior, last.agent_id, HistoryWindow)
            = <<10000>>
    /\ last.amount = 4999
    /\ last.action \in {"HOLD_ALERT", "REVOKE"}

(***************************************************************************)
(* C16: an agent that has no approve-decision in its vote history shows no *)
(* behavioural anomaly whatever the amount: the evaluator, called as a     *)
(* tool or inside a consensus transaction, classifies it APPROVE when it   *)
(* is not tampered and IGNORE when it is, never HOLD_ALERT or REVOKE.      *)
(***************************************************************************)
C16_NoApprovedHistoryNoAnomaly ==
    [][ LET fresh(a) == ~\E r \in agent_behavior : r.agent_id = a /\ r.vote = "APPROVE"
        IN  /\ (last'.op = "evaluate_agent_integrity" /\ fresh(last'.agent_id)) =>
                    /\ last'.action =
                            IF \/ last'.agent_id \in tampered_agents
                               \/ last'.last_known_hash # get_model_weight_hash(last'.agent_id)
                            THEN "IGNORE" ELSE "APPROVE"
                    /\ last'.confidence = IF last'.action = "IGNORE" THEN "LOW" ELSE "HIGH"
            /\ ConsensusStep =>
                    \A a \in Agents :
                        (fresh(a) /\ IntegrityOf(last', a) # "NOT_EVALUATED") =>
                            IntegrityOf(last', a) =
                                IF a \in tampered_agents THEN "IGNORE" ELSE "APPROVE"
      ]_vars

\* The compliance agent has voted review only; tampered, it was evaluated
\* on twice the amount it voted on and classified IGNORE.
C16_Witness ==
    /\ last.op = "evaluate_agent_integrity"
    /\ last.agent_id = "compliance_agent_002"
    /\ last.agent_id \in tampered_agents
    /\ \E r \in agent_behavior :
            r.agent_id = last.agent_id /\ r.vote = "REVIEW" /\ r.amount = 10000
    /\ ~\E r \in agent_behavior : r.agent_id = last.agent_id /\ r.vote = "APPROVE"
    /\ last.amount = 20000
    /\ last.action = "IGNORE"

(***************************************************************************)
(* The ledger of consensus transactions: transactions of $100 at either    *)
(* merchant while agents are revoked and reinstated by hand.               *)
(***************************************************************************)
NextLedger ==
    \/ \E merchant \in Merchants : ExecuteWithConsensusUpTo(MaxLedgerNow, 10000, merchant)
    \/ \E agent_id \in Agents : RevokeAgentUpTo(MaxLedgerNow, agent_id)
    \/ \E agent_id \in Agents : ReinstateAgent(agent_id)

SpecLedger == Init /\ [][NextLedger]_vars

(***************************************************************************)
(* The vote table under direct log_agent_vote calls, consensus             *)
(* transactions of $100, manual revocations and reinstate_agent.           *)
(***************************************************************************)
NextVotes ==
    \/ \E agent_id \in Agents, tx_id \in StoreTxIds, vote \in StoreVotes,
          amount \in StoreAmounts, fault \in Faults :
            DbLogAgentVote(agent_id, tx_id, vote, amount, fault)
    \/ \E merchant \in Merchants : ExecuteWithConsensusUpTo(MaxStoreNow, 10000, merchant)
    \/ \E agent_id \in Agents : RevokeAgentUpTo(MaxStoreNow, agent_id)
    \/ \E agent_id \in Agents : ReinstateAgent(agent_id)

SpecVotes == Init /\ [][NextVotes]_vars

(***************************************************************************)
(* C17: vote records are unique per (agent id, transaction id).  A write   *)
(* on a key that already has a record leaves exactly one record for the    *)
(* key, holding the decision, amount and timestamp of the later write; no  *)
(* step of execute_with_consensus, reinstate_agent or revoke_agent (nor of *)
(* log_agent_vote) removes a key from the table.                           *)
(***************************************************************************)
C17_VoteRecordsUniqueAndKept ==
    [][ LET SameKey(r, q) == r.agent_id = q.agent_id /\ r.transaction_id = q.transaction_id
            RowOf(a, t) == {r \in agent_behavior' : r.agent_id = a /\ r.transaction_id = t}
        IN  /\ \A r, q \in agent_behavior' : SameKey(r, q) => r = q
            /\ \A r \in agent_behavior : \E q \in agent_behavior' : SameKey(r, q)
            /\ \A r \in agent_behavior, q \in agent_behavior' :
                    (SameKey(r, q) /\ q # r) => q.timestamp > r.timestamp
            /\ (last'.op = "db.log_agent_vote" /\ last'.status = "returned") =>
                    RowOf(last'.agent_id, last'.transaction_id)
                        = {[agent_id |-> last'.agent_id,
                            transaction_id |-> last'.transaction_id,
                            vote |-> Upper(last'.message),
                            amount |-> last'.amount,
                            timestamp |-> now']}
            /\ (ConsensusStep /\ last'.status # "BLOCKED") =>
                    \A i \in 1..Len(last'.votes) :
                        \E ts \in (now + 1)..now' :
                            RowOf(last'.votes[i].agent_id, last'.transaction_id)
                                = {[agent_id |-> last'.votes[i].agent_id,
                                    transaction_id |-> last'.transaction_id,
                                    vote |-> Upper(last'.votes[i].vote),
                                    amount |-> last'.amount,
                                    timestamp |-> ts]}
            /\ last'.op \in {"reinstate_agent", "revoke_agent"} =>
                    agent_behavior' = agent_behavior
      ]_vars

\* A consensus transaction started at time 1, after a direct call, and
\* voted by the whole roster has written its votes under a transaction id
\* the direct calls use: the finance agent's key holds one record, the
\* transaction's, and the table holds the three votes only.
C17_Witness ==
    /\ last.op = "execute_with_consensus"
    /\ Len(last.votes) = 3
    /\ now = 5
    /\ last.transaction_id \in StoreTxIds
    /\ {r \in agent_behavior : r.agent_id = "finance_agent_001"
                               /\ r.transaction_id = last.transaction_id}
          = {[agent_id |-> "finance_agent_001", transaction_id |-> last.transaction_id,
              vote |-> "APPROVE", amount |-> 10000, timestamp |-> 2]}
    /\ Cardinality(agent_behavior) = 3

(***************************************************************************)
(* C18: after a consensus transaction that reaches a vote the store holds, *)
(* under the transaction id the engine returned, exactly one vote record   *)
(* for each agent that voted, with its decision and the transaction        *)
(* amount, no vote record for any other agent, and exactly one transaction *)
(* record, whose status is the reported final status.                      *)
(***************************************************************************)
C18_LedgerHoldsExactlyTheVote ==
    [][ (ConsensusStep /\ last'.status \in {"APPROVED", "REJECTED"}) =>
            LET tx_id == last'.transaction_id
                rows == {r \in agent_behavior' : r.transaction_id = tx_id}
                txs == {t \in transactions' : t.id = tx_id}
            IN  /\ \A i \in 1..Len(last'.votes) :
                        Cardinality({r \in rows :
                            /\ r.agent_id = last'.votes[i].agent_id
                            /\ r.vote = Upper(last'.votes[i].vote)
                            /\ r.amount = last'.amount}) = 1
                /\ \A r \in rows : r.agent_id \in VotersOf(last')
                /\ Cardinality(rows) = Len(last'.votes)
                /\ Cardinality(txs) = 1
                /\ \A t \in txs : Upper(t.status) = last'.status
      ]_vars

(***************************************************************************)
(* C19: every consensus transaction that reaches a vote adds one sample to *)
(* the approved-amount history of each agent that votes approve in it, so  *)
(* that k such transactions give k samples, also when they have the same   *)
(* merchant and amount.                                                    *)
(***************************************************************************)
C19_EachApproveVoteAddsASample ==
    [][ (ConsensusStep /\ last'.status \in {"APPROVED", "REJECTED"}) =>
            \A i \in 1..Len(last'.votes) :
                last'.votes[i].vote = "approve" =>
                    LET a == last'.votes[i].agent_id
                    IN  Len(get_recent_approved_amounts(agent_behavior', a, HistoryWindow))
                          = Len(get_recent_approved_amounts(agent_behavior, a, HistoryWindow)) + 1
      ]_vars

(***************************************************************************)
(* C20: every store write is all-or-nothing.  A write that meets an sqlite *)
(* error leaves the three tables as they were and reaches the caller as    *)
(* RuntimeError; a write that meets none returns.  No other outcome        *)
(* exists.                                                                 *)
(***************************************************************************)
C20_WriteFailsAsRuntimeError ==
    [][ last'.op \in {"db.log_agent_vote", "db.log_transaction",
                      "db.revoke_agent", "db.reinstate_agent"} =>
            \/ last'.status = "returned"
            \/ /\ last'.status = "RuntimeError"
               /\ agent_behavior' = agent_behavior
               /\ transactions' = transactions
               /\ revoked_agents' = revoked_agents
      ]_vars

(***************************************************************************)
(* Consensus transactions at a known merchant, complete or ended by a      *)
(* store error at any one of their writes, and tampering.                  *)
(***************************************************************************)
NextFailing ==
    \/ \E amount \in ConsensusAmounts :
            ExecuteWithConsensusUpTo(MaxFailingNow, amount, "Amazon")
    \/ \E agent_id \in Agents : SimulateTampering(agent_id)
    \/ \E amount \in ConsensusAmounts, k \in 1..(Len(Roster) + 1), fault \in Faults :
            ExecuteWithConsensusFailing(MaxFailingNow, amount, "Amazon", k, fault)

SpecFailing == Init /\ [][NextFailing]_vars

(***************************************************************************)
(* C21: a consensus transaction that ends early has no compensating        *)
(* rollback.  When the call returns BLOCKED, or is ended by a store error  *)
(* at one of its writes, no record that existed before is lost, every      *)
(* agent it classified REVOKE before that point has its revocation record, *)
(* and every vote it logged before that point has its vote record.         *)
(***************************************************************************)
C21_NoCompensatingRollback ==
    [][ (/\ last'.op = "execute_with_consensus"
         /\ last'.status \in {"BLOCKED", "RuntimeError", "sqlite3.OperationalError"}) =>
            LET failed_revoke == IF last'.action = "revoke" THEN {last'.agent_id} ELSE {}
                classified == {a \in Agents : IntegrityOf(last', a) = "REVOKE"}
                                    \ failed_revoke
                votes_logged ==
                    CASE last'.action = "vote" ->
                            (CHOOSE i \in 1..Len(last'.votes) :
                                    last'.votes[i].agent_id = last'.agent_id) - 1
                      [] last'.action = "tx" -> Len(last'.votes)
                      [] OTHER -> 0
            IN  /\ revoked_agents \subseteq revoked_agents'
                /\ transactions \subseteq transactions'
                /\ \A r \in agent_behavior : \E q \in agent_behavior' :
                        q.agent_id = r.agent_id /\ q.transaction_id = r.transaction_id
                /\ \A a \in classified : \E r \in revoked_agents' :
                        /\ r.agent_id = a
                        /\ r.reason = AutoRevokeReason
                        /\ r.revoked_at > now
                /\ \A i \in 1..votes_logged : \E r \in agent_behavior' :
                        /\ r.agent_id = last'.votes[i].agent_id
                        /\ r.transaction_id = last'.transaction_id
                        /\ r.vote = Upper(last'.votes[i].vote)
                        /\ r.amount = last'.amount
                        /\ r.timestamp > now
      ]_vars

\* The call revoked an agent and logged two votes, then the write of the
\* transaction record raised: the revocation and the votes are in the store
\* and the transaction record is not.
C21_Witness ==
    /\ last.op = "execute_with_consensus"
    /\ last.status = "RuntimeError"
    /\ last.action = "tx"
    /\ Len(last.votes) = 2
    /\ \E a \in Agents : IntegrityOf(last, a) = "REVOKE" /\ a \in RevokedIds(revoked_agents)
    /\ \A i \in 1..2 : \E r \in agent_behavior :
            r.agent_id = last.votes[i].agent_id /\ r.transaction_id = last.transaction_id
    /\ ~\E t \in transactions : t.id = last.transaction_id

(***************************************************************************)
(* The risk tools: score_payment_risk and create_merchant_locked_card.     *)
(***************************************************************************)
NextRisk ==
    \/ \E amount \in RiskAmounts, merchant \in RiskMerchants, hour \in RiskHours :
            ScorePaymentRisk(amount, merchant, hour)
    \/ \E merchant \in RiskMerchants, amount \in RiskAmounts, current_hour \in ClockHours,
          card_suffix \in CardSuffixes, mandate_number \in MandateNumbers :
            CreateMerchantLockedCard(merchant, amount, current_hour, card_suffix,
                                     mandate_number)

SpecRisk == Init /\ [][NextRisk]_vars

(***************************************************************************)
(* C22: score_payment_risk and create_merchant_locked_card reject invalid  *)
(* input before computing or writing anything.  An empty or blank          *)
(* merchant, an amount <= 0 and, for score_payment_risk, an hour outside   *)
(* 0..23 each give an Error message, no score is reported and no table     *)
(* changes; create_merchant_locked_card persists no mandate.  Valid input  *)
(* gives no Error message.                                                 *)
(***************************************************************************)
C22_InvalidInputRejected ==
    [][ LET blank == last'.merchant \in {"", "   "}
            nonpositive == last'.amount <= 0
            bad_hour == last'.hour < 0 \/ last'.hour > 23
            errors == {"Error: Merchant name required", "Error: Amount must be positive",
                       "Error: Hour must be UTC (0-23)"}
            untouched == /\ mandates' = mandates
                         /\ transactions' = transactions
                         /\ agent_behavior' = agent_behavior
                         /\ revoked_agents' = revoked_agents
                         /\ last'.score = 0
                         /\ last'.recommendation = ""
        IN  /\ last'.op = "score_payment_risk" =>
                /\ (blank \/ nonpositive \/ bad_hour) <=> last'.message \in errors
                /\ (blank \/ nonpositive \/ bad_hour) => untouched
                /\ blank => last'.message = "Error: Merchant name required"
                /\ (~blank /\ nonpositive) => last'.message = "Error: Amount must be positive"
                /\ (~blank /\ ~nonpositive /\ bad_hour) =>
                        last'.message = "Error: Hour must be UTC (0-23)"
            /\ last'.op = "create_merchant_locked_card" =>
                /\ (blank \/ nonpositive) <=> last'.message \in errors
                /\ (blank \/ nonpositive) => untouched
                /\ blank => last'.message = "Error: Merchant name required"
                /\ (~blank /\ nonpositive) => last'.message = "Error: Amount must be positive"
      ]_vars

\* A card for a blank merchant has just been refused; the store holds the
\* mandate of an earlier card and nothing else.
C22_Witness ==
    /\ last.op = "create_merchant_locked_card"
    /\ last.merchant = "   "
    /\ last.amount = 5000
    /\ last.message = "Error: Merchant name required"
    /\ Cardinality(mandates) = 1

(***************************************************************************)
(* execute_with_consensus on amounts and merchants of every kind.          *)
(***************************************************************************)
NextUnchecked ==
    \E amount \in UncheckedAmounts, merchant \in UncheckedMerchants :
        ExecuteWithConsensus(amount, merchant)

SpecUnchecked == Init /\ [][NextUnchecked]_vars

(***************************************************************************)
(* C23: execute_with_consensus called with an amount <= 0 or with an empty *)
(* or blank merchant writes no transaction record, no vote record and no   *)
(* revocation record, and does not report the transaction as approved.     *)
(***************************************************************************)
C23_InvalidTransactionRejected ==
    [][ (/\ last'.op = "execute_with_consensus"
         /\ last'.amount <= 0 \/ last'.merchant \in {"", "   "}) =>
            /\ transactions' = transactions
            /\ agent_behavior' = agent_behavior
            /\ revoked_agents' = revoked_agents
            /\ last'.status # "APPROVED"
      ]_vars

(***************************************************************************)
(* The baseline tool over the votes logged for one agent.                  *)
(***************************************************************************)
NextBaseline ==
    \/ \E tx_id \in BaselineTxIds, vote \in BaselineVotes, amount \in BaselineAmounts :
            DbLogAgentVoteUpTo(MaxBaselineNow, "finance_agent_001", tx_id, vote, amount,
                               "none")
    \/ \E agent_id \in Agents, decay \in Decays : GetExponentialBaseline(agent_id, decay)

SpecBaseline == Init /\ [][NextBaseline]_vars

(***************************************************************************)
(* Vocabulary of the baseline properties                                   *)
(***************************************************************************)
\* The agent's approve records.
ApproveRows(agent_id) ==
    {r \in agent_behavior : r.agent_id = agent_id /\ r.vote = "APPROVE"}

\* The approve record of the agent that has i newer approve records.
RowOfAge(agent_id, i) ==
    CHOOSE r \in ApproveRows(agent_id) :
        Cardinality({q \in ApproveRows(agent_id) : q.timestamp > r.timestamp}) = i

\* (sum of amount_i x d^i) / (sum of d^i) over the agent's approve records,
\* i = 0 for the newest, d = p/q, as a fraction with both sums times q^(n-1).
WeightedMean(agent_id, p, q) ==
    LET n == Cardinality(ApproveRows(agent_id))
        Sum[i \in -1..(n - 1)] ==
            IF i = -1 THEN [ws |-> 0, wt |-> 0]
            ELSE [ws |-> Sum[i - 1].ws
                            + RowOfAge(agent_id, i).amount * Pow(p, i) * Pow(q, n - 1 - i),
                  wt |-> Sum[i - 1].wt + Pow(p, i) * Pow(q, n - 1 - i)]
    IN  [num |-> Sum[n - 1].ws, den |-> Sum[n - 1].wt]

(***************************************************************************)
(* C24: the baseline tool returns baseline 0 and sample count 0 for an     *)
(* agent without approved history; for a single approved sample it returns *)
(* exactly that sample whatever the decay; in general its sample count is  *)
(* the number of approved samples and its baseline is                      *)
(* (sum of amount_i x d^i) / (sum of d^i), i = 0 for the newest sample, to *)
(* the cent (the tool reports the value rounded to two decimals).          *)
(***************************************************************************)
C24_BaselineIsWeightedMean ==
    last.op = "get_exponential_baseline" =>
        LET n == Cardinality(ApproveRows(last.agent_id))
            mean == WeightedMean(last.agent_id, last.decay.p, last.decay.q)
        IN  /\ last.sample_count = n
            /\ n = 0 => last.ewma = 0
            /\ n = 1 => last.ewma = RowOfAge(last.agent_id, 0).amount
            /\ n >= 1 => 2 * Abs(last.ewma * mean.den - mean.num) <= mean.den

\* The baseline of an agent with two approved samples, $80 the newer and
\* $100 the older, was asked with decay 1/2: (80 + 100 x 0.5) / 1.5 = 86.67.
C24_Witness ==
    /\ last.op = "get_exponential_baseline"
    /\ last.decay = [p |-> 1, q |-> 2]
    /\ last.sample_count = 2
    /\ RowOfAge(last.agent_id, 0).amount = 8000
    /\ RowOfAge(last.agent_id, 1).amount = 10000
    /\ last.ewma = 8667

\* The tool was asked with decay 0.9 for an agent whose approved history is
\* [100, 90, 80], most recent first.
HistoryHundredNinetyEighty ==
    /\ last.op = "get_exponential_baseline"
    /\ last.decay = [p |-> 9, q |-> 10]
    /\ Cardinality(ApproveRows(last.agent_id)) = 3
    /\ RowOfAge(last.agent_id, 0).amount = 10000
    /\ RowOfAge(last.agent_id, 1).amount = 9000
    /\ RowOfAge(last.agent_id, 2).amount = 8000

(***************************************************************************)
(* C25 as stated: for the approved history [100, 90, 80] (most recent      *)
(* first) and decay 0.9 the baseline tool returns 91.67.                   *)
(***************************************************************************)
C25_ReturnsNinetyOneSixtySeven ==
    HistoryHundredNinetyEighty => last.ewma = 9167

(***************************************************************************)
(* C25 amended: for the approved history [100, 90, 80] (most recent first) *)
(* and decay 0.9 the baseline tool returns                                 *)
(* (100 + 90 x 0.9 + 80 x 0.81) / (1 + 0.9 + 0.81) = 245.8 / 2.71, which   *)
(* is 90.70 to the cent.                                                   *)
(***************************************************************************)
C25_ReturnsNinetySeventy ==
    HistoryHundredNinetyEighty =>
        /\ last.ewma = 9070
        /\ 2 * Abs(last.ewma * 271 - (10000 * 100 + 9000 * 90 + 8000 * 81)) <= 271

\* The tool has answered 90.70 for that history.
C25_Witness ==
    /\ HistoryHundredNinetyEighty
    /\ last.sample_count = 3
    /\ last.ewma = 9070

(***************************************************************************)
(* C26: evaluating an agent's integrity writes nothing.  The vote history, *)
(* the revocation records, the transaction records, the mandates and the   *)
(* tampered-agent set are the same after the call as before, whatever the  *)
(* input and whatever the returned action, REVOKE included.                *)
(***************************************************************************)
C26_EvaluatorWritesNothing ==
    [][ last'.op = "evaluate_agent_integrity" =>
            /\ agent_behavior' = agent_behavior
            /\ revoked_agents' = revoked_agents
            /\ transactions' = transactions
            /\ mandates' = mandates
            /\ tampered_agents' = tampered_agents
            /\ last'.action \in {"REVOKE", "HOLD_ALERT", "IGNORE", "APPROVE"}
      ]_vars

\* The evaluator has answered REVOKE for an agent, and the agent has no
\* revocation record.
C26_Witness ==
    /\ last.op = "evaluate_agent_integrity"
    /\ last.action = "REVOKE"
    /\ ~is_agent_revoked(revoked_agents, last.agent_id)
    /\ last.agent_id \in tampered_agents

(***************************************************************************)
(* The tamper check: simulate_tampering and has_weights_tampered, the      *)
(* latter on the current and on an earlier fingerprint of every agent.     *)
(***************************************************************************)
KnownHashes ==
    {get_model_weight_hash(a) : a \in Agents} \cup {StaleHash(a) : a \in Agents}

NextTamper ==
    \/ \E agent_id \in Agents : SimulateTampering(agent_id)
    \/ \E agent_id \in Agents, last_known_hash \in KnownHashes :
            HasWeightsTampered(agent_id, last_known_hash)

SpecTamper == Init /\ [][NextTamper]_vars

(***************************************************************************)
(* C27: has_weights_tampered(agent_id, last_known_hash) returns True when  *)
(* the agent's current model hash, as get_model_weight_hash returns it,    *)
(* differs from last_known_hash, and False otherwise, in every state.      *)
(***************************************************************************)
C27_TamperedIffHashDiffers ==
    last.op = "has_weights_tampered" =>
        (last.tampered <=> get_model_weight_hash(last.agent_id) # last.last_known_hash)

(***************************************************************************)
(* Transactions around the auto-approve floor while agents are revoked by  *)
(* hand and tampered with.                                                 *)
(***************************************************************************)
NextBypass ==
    \/ \E amount \in BypassAmounts : ExecuteWithConsensus(amount, "Amazon")
    \/ \E agent_id \in Agents : RevokeAgent(agent_id)
    \/ \E agent_id \in Agents : SimulateTampering(agent_id)

SpecBypass == Init /\ [][NextBypass]_vars

HistoryAgents == {"finance_agent_001", "audit_agent_003"}

NextHistory ==
    \/ \E agent_id \in HistoryAgents, tx_id \in StoreTxIds, vote \in StoreVotes,
          amount \in StoreAmounts :
            DbLogAgentVoteUpTo(MaxBaselineNow, agent_id, tx_id, vote, amount, "none")
    \/ \E agent_id \in HistoryAgents, limit \in HistoryLimits :
            DbGetRecentApprovedAmounts(agent_id, limit)
    \/ \E agent_id \in HistoryAgents, amount \in StoreAmounts :
            EvaluateAgentIntegrity(agent_id, amount, get_model_weight_hash(agent_id))

SpecHistory == Init /\ [][NextHistory]_vars

LargeAgentLists == {Roster, SubSeq(Roster, 1, 2)}

NextLarge ==
    \/ \E agents \in LargeAgentLists, amount \in EngineAmounts, merchant \in Merchants :
            EngineSimulateVote(agents, amount, merchant)
    \/ \E amount \in LargeAmounts, merchant \in Merchants :
            ExecuteWithConsensus(amount, merchant)
    \/ \E agent_id \in Agents : SimulateTampering(agent_id)

SpecLarge == Init /\ [][NextLarge]_vars

\* The votes of the last result that are approvals.
ApprovingVotes == {i \in 1..Len(last.votes) : last.votes[i].vote = "approve"}

(***************************************************************************)
(* C30: when the full three-agent roster votes on an amount above $1000,   *)
(* the result is rejected for every merchant: the audit agent does not     *)
(* approve, at most 2 of the 3 votes approve, the reported rate is at most *)
(* 0.67 and the threshold is 0.80.                                         *)
(***************************************************************************)
C30_FullRosterRejectsAboveThousand ==
    (/\ last.op \in {"simulate_vote", "execute_with_consensus"}
     /\ [i \in 1..Len(last.votes) |-> last.votes[i].agent_id] = Roster
     /\ last.amount > 100000)
        => /\ Upper(last.status) = "REJECTED"
           /\ \A i \in 1..Len(last.votes) :
                RoleKeyword(last.votes[i].agent_id) = "audit"
                    => last.votes[i].vote # "approve"
           /\ Cardinality(ApprovingVotes) <= 2
           /\ last.approval_rate <= 67
           /\ last.required_threshold = 80

\* execute_with_consensus put $1000.01 at Amazon to the full roster: two
\* approvals, rate 0.67, REJECTED.
C30_Witness ==
    /\ last.op = "execute_with_consensus"
    /\ last.amount = 100001
    /\ last.merchant = "Amazon"
    /\ Len(last.votes) = 3
    /\ Cardinality(ApprovingVotes) = 2
    /\ last.approval_rate = 67
    /\ last.status = "REJECTED"

(***************************************************************************)
(* Consensus transactions that the full roster rejects, with manual        *)
(* revocations deciding which agents survive to vote.                      *)
(***************************************************************************)
NextGate ==
    \/ \E amount \in GateAmounts, merchant \in Merchants :
            ExecuteWithConsensus(amount, merchant)
    \/ \E agent_id \in Agents : RevokeAgent(agent_id)

SpecGate == Init /\ [][NextGate]_vars

(***************************************************************************)
(* C31: excluding agents never weakens the gate.  When a consensus         *)
(* transaction has been decided by the vote of the surviving agents and    *)
(* the full roster would reject the same amount and merchant, the          *)
(* transaction is not approved.                                            *)
(***************************************************************************)
C31_ExclusionNeverWeakensGate ==
    (/\ last.op = "execute_with_consensus"
     /\ last.consensus = "vote"
     /\ Len(last.votes) > 0
     /\ simulate_vote(Roster, last.amount, last.merchant).status = "rejected")
        => last.status # "APPROVED"

(***************************************************************************)
(* Consensus transactions of drifting amounts at a known merchant, with    *)
(* agents tampered at any time.                                            *)
(***************************************************************************)
NextDrift ==
    \/ \E amount \in DriftAmounts : ExecuteWithConsensusUpTo(MaxDriftNow, amount, "Amazon")
    \/ \E agent_id \in Agents : SimulateTampering(agent_id)

SpecDrift == Init /\ [][NextDrift]_vars

\* amount is within 50% of the weighted mean of the agent's approve records
\* (an agent without approve records is measured against the amount itself).
WithinHalfOfBaseline(agent_id, amount) ==
    LET mean == WeightedMean(agent_id, 9, 10)
    IN  \/ Cardinality(ApproveRows(agent_id)) = 0
        \/ 2 * Abs(amount * mean.den - mean.num) <= mean.num

\* The fraction a lies between the amount and the fraction b.
Between(a, amount, b) ==
    \/ b.num * a.den <= a.num * b.den /\ a.num <= amount * a.den
    \/ amount * a.den <= a.num /\ a.num * b.den <= b.num * a.den

(***************************************************************************)
(* C32: the baseline is recomputed from the recorded approve history on    *)
(* every evaluation.  A consensus transaction whose amount is within 50%   *)
(* of an agent's baseline at that moment classifies the agent neither      *)
(* REVOKE nor HOLD_ALERT, tampered or not; and when the agent's approve    *)
(* vote is recorded as one more sample its new baseline lies between its   *)
(* old baseline and the amount, so the baseline follows the amounts.       *)
(***************************************************************************)
C32_GradualDriftNeverFlagged ==
    [][(last'.op = "execute_with_consensus" /\ last'.consensus = "vote") =>
        \A agent_id \in Agents, i \in 1..Len(last'.integrity) :
            LET before == WeightedMean(agent_id, 9, 10)
                after == WeightedMean(agent_id, 9, 10)'
                samples == Cardinality(ApproveRows(agent_id))
            IN  (/\ last'.integrity[i].agent_id = agent_id
                 /\ WithinHalfOfBaseline(agent_id, last'.amount)) =>
                    /\ last'.integrity[i].action \in {"APPROVE", "IGNORE"}
                    /\ (samples > 0 /\ Cardinality(ApproveRows(agent_id))' = samples + 1)
                            => Between(after, last'.amount, before)
      ]_vars

\* The tampered compliance agent has approved $100, $150 and $189 in turn
\* and was classified IGNORE at $189, which is more than 50% above its first
\* baseline of $100; its baseline is now above $149.
C32_Witness ==
    LET agent_id == "compliance_agent_002"
        mean == WeightedMean(agent_id, 9, 10)
    IN  /\ last.op = "execute_with_consensus"
        /\ last.amount = 18900
        /\ agent_id \in tampered_agents
        /\ ~is_agent_revoked(revoked_agents, agent_id)
        /\ \E i \in 1..Len(last.integrity) :
                last.integrity[i] = [agent_id |-> agent_id, action |-> "IGNORE"]
        /\ Cardinality(ApproveRows(agent_id)) = 3
        /\ RowOfAge(agent_id, 2).amount = 10000
        /\ RowOfAge(agent_id, 1).amount = 15000
        /\ RowOfAge(agent_id, 0).amount = 18900
        /\ 2 * (last.amount - RowOfAge(agent_id, 2).amount) > RowOfAge(agent_id, 2).amount
        /\ mean.num > 14900 * mean.den

(***************************************************************************)
(* Consensus transactions at a known merchant, tampering and               *)
(* reinstate_agent: every revocation is an automatic one.                  *)
(***************************************************************************)
NextReinstate ==
    \/ \E amount \in ReinstateAmounts :
            ExecuteWithConsensusUpTo(MaxDriftNow, amount, "Amazon")
    \/ \E agent_id \in Agents : SimulateTampering(agent_id)
    \/ \E agent_id \in Agents : ReinstateAgent(agent_id)

SpecReinstate == Init /\ [][NextReinstate]_vars

\* amount is more than 50% off the positive weighted mean of the agent's
\* approve records.
OutsideHalfOfBaseline(agent_id, amount) ==
    LET mean == WeightedMean(agent_id, 9, 10)
    IN  /\ Cardinality(ApproveRows(agent_id)) > 0
        /\ mean.num > 0
        /\ 2 * Abs(amount * mean.den - mean.num) > mean.num

(***************************************************************************)
(* C33: the tamper flag is permanent.  No step removes an agent from the   *)
(* tampered set; and a consensus transaction (amount >= $100) whose amount *)
(* is more than 50% off the baseline of a tampered agent that has no       *)
(* revocation record when it starts, a reinstated one included, classifies *)
(* the agent REVOKE, leaves it with a revocation record and takes no vote  *)
(* from it.                                                                *)
(***************************************************************************)
C33_TamperFlagPermanent ==
    [][/\ tampered_agents \subseteq tampered_agents'
       /\ (last'.op = "execute_with_consensus" /\ last'.amount >= 10000) =>
            \A agent_id \in tampered_agents :
                (/\ ~is_agent_revoked(revoked_agents, agent_id)
                 /\ OutsideHalfOfBaseline(agent_id, last'.amount)) =>
                    /\ is_agent_revoked(revoked_agents', agent_id)
                    /\ \E i \in 1..Len(last'.integrity) :
                            last'.integrity[i] = [agent_id |-> agent_id, action |-> "REVOKE"]
                    /\ \A i \in 1..Len(last'.votes) : last'.votes[i].agent_id # agent_id
      ]_vars

\* The finance agent, the only tampered one, was left out of the two-vote
\* transaction of $200, so it was revoked then; the transaction of $300 has
\* evaluated it again, so it had been reinstated, and has classified it
\* REVOKE: it has a revocation record and is still in the tampered set.
C33_Witness ==
    LET agent_id == "finance_agent_001"
    IN  /\ last.op = "execute_with_consensus"
        /\ last.amount = 30000
        /\ tampered_agents = {agent_id}
        /\ \E t \in transactions : t.id.amount = 20000 /\ t.id.n = 2
        /\ \E i \in 1..Len(last.integrity) :
                last.integrity[i] = [agent_id |-> agent_id, action |-> "REVOKE"]
        /\ is_agent_revoked(revoked_agents, agent_id)

(***************************************************************************)
(* C34: execute_with_consensus reads the last-known hash from the live     *)
(* hash source just before the comparison, so the comparison never reports *)
(* a mismatch.  After a consensus transaction every agent it evaluated was *)
(* given the tamper signal (classified REVOKE or IGNORE rather than        *)
(* HOLD_ALERT or APPROVE) exactly when simulate_tampering has been called  *)
(* for it.                                                                 *)
(***************************************************************************)
C34_TamperSignalIsTamperedSet ==
    last.op = "execute_with_consensus" =>
        \A i \in 1..Len(last.integrity) :
            /\ last.integrity[i].action \in {"REVOKE", "IGNORE", "HOLD_ALERT", "APPROVE"}
            /\ (last.integrity[i].action \in {"REVOKE", "IGNORE"})
                    <=> (last.integrity[i].agent_id \in tampered_agents)

\* A transaction of $250 has classified the tampered finance agent REVOKE
\* and the untampered compliance agent HOLD_ALERT.
C34_Witness ==
    /\ last.op = "execute_with_consensus"
    /\ last.amount = 25000
    /\ "finance_agent_001" \in tampered_agents
    /\ "compliance_agent_002" \notin tampered_agents
    /\ \E i, j \in 1..Len(last.integrity) :
            /\ last.integrity[i] = [agent_id |-> "finance_agent_001", action |-> "REVOKE"]
            /\ last.integrity[j] = [agent_id |-> "compliance_agent_002",
                                    action |-> "HOLD_ALERT"]

(***************************************************************************)
(* Two execute_with_consensus calls in flight at a known merchant, with    *)
(* any interleaving of their steps, of tampering of the finance agent and  *)
(* of direct db.log_agent_vote, db.revoke_agent and db.reinstate_agent     *)
(* calls for it.                                                           *)
(***************************************************************************)
CallStep(c) ==
    \/ CallCheckAgent(c)
    \/ CallRevoke(c)
    \/ CallOverride(c)
    \/ CallSimulateVote(c)
    \/ CallRestore(c)
    \/ CallLogAgentVote(c)
    \/ CallLogTransaction(c)

NextInterleaved ==
    \/ \E c \in CallIds, amount \in InterleavedAmounts :
            CallBegin(MaxCallNow, c, amount, "Amazon")
    \/ \E c \in CallIds : CallStep(c)
    \/ \E tx_id \in StoreTxIds :
            DbLogAgentVoteUpTo(MaxCallNow, "finance_agent_001", tx_id, "approve",
                               tx_id.amount, "none")
    \/ SimulateTampering("finance_agent_001")
    \/ RevokeAgentUpTo(MaxCallNow, "finance_agent_001")
    \/ DbReinstateAgent("finance_agent_001", "none")

SpecInterleaved == Init /\ [][NextInterleaved]_vars

(***************************************************************************)
(* C35: under interleaved execute_with_consensus calls and revoke and      *)
(* reinstate store operations, no vote record is written for an agent that *)
(* has a revocation record at the moment the vote is written.              *)
(***************************************************************************)
C35_NoVoteWrittenForRevokedAgent ==
    [][\A c \in CallIds :
        (calls[c].pc = "log_agent_vote" /\ calls'[c] # calls[c]) =>
            ~is_agent_revoked(revoked_agents, calls[c].votes[calls[c].k].agent_id)
      ]_vars

\* The agents the call has logged with the given event.
LoggedAs(c, event) ==
    {calls[c].log[j].agent_id : j \in {n \in 1..Len(calls[c].log) : calls[c].log[n].event = event}}

\* The agents of a list.
Members(agents) == {agents[j] : j \in 1..Len(agents)}

(***************************************************************************)
(* C36: the temporary roster override is confined to one call.  Under any  *)
(* interleaving of two calls, the engine of a call holds the call's active *)
(* subset only between the override and the restore and the full roster at *)
(* every other step of the call; a call that has voted did so with its own *)
(* active subset, and its excluded, newly revoked and active agents        *)
(* partition the full roster.                                              *)
(***************************************************************************)
C36_OverrideConfinedToCall ==
    \A c \in CallIds :
        /\ calls[c].pc \in {"check", "revoke", "override", "log_agent_vote",
                            "log_transaction"}
                => calls[c].engine_agents = Roster
        /\ calls[c].pc \in {"simulate_vote", "restore"}
                => calls[c].engine_agents = calls[c].active
        /\ calls[c].pc \in {"restore", "log_agent_vote", "log_transaction"}
                => /\ calls[c].voters = calls[c].active
                   /\ [j \in 1..Len(calls[c].votes) |-> calls[c].votes[j].agent_id]
                            = calls[c].active
                   /\ calls[c].loop_agents = Roster
                   /\ Members(calls[c].active) \cup LoggedAs(c, "EXCLUDED")
                            \cup LoggedAs(c, "COMPROMISED") = Agents
                   /\ Members(calls[c].active) \cap LoggedAs(c, "EXCLUDED") = {}
                   /\ Members(calls[c].active) \cap LoggedAs(c, "COMPROMISED") = {}
                   /\ LoggedAs(c, "EXCLUDED") \cap LoggedAs(c, "COMPROMISED") = {}

\* Both calls have voted and not yet restored their engines: the first with
\* the compliance and audit agents, the finance agent excluded, the second
\* with the full roster.
C36_Witness ==
    /\ calls[1].pc = "restore"
    /\ calls[1].voters = <<"compliance_agent_002", "audit_agent_003">>
    /\ LoggedAs(1, "EXCLUDED") = {"finance_agent_001"}
    /\ calls[1].engine_agents = calls[1].voters
    /\ calls[2].pc = "restore"
    /\ calls[2].voters = Roster
    /\ calls[2].engine_agents = Roster

(***************************************************************************)
(* C37: in every reachable state, under any interleaving of transactions,  *)
(* revocations and reinstatements, two transactions revoking the same      *)
(* agent at the same time included, there is at most one revocation record *)
(* per agent, and an agent is listed by get_revoked_agents exactly when    *)
(* is_agent_revoked is true for it.                                        *)
(***************************************************************************)
C37_OneRevocationRecordPerAgent ==
    \A agent_id \in Agents :
        /\ Cardinality({r \in revoked_agents : r.agent_id = agent_id}) <= 1
        /\ (\E r \in get_revoked_agents(revoked_agents) : r.agent_id = agent_id)
                <=> is_agent_revoked(revoked_agents, agent_id)

\* Both calls classified the finance agent REVOKE before either wrote: the
\* second has written its revocation, the first is about to write its own
\* over it.
C37_Witness ==
    /\ calls[1].pc = "revoke"
    /\ calls[1].loop_agents[calls[1].i] = "finance_agent_001"
    /\ LoggedAs(2, "COMPROMISED") = {"finance_agent_001"}
    /\ calls[2].pc # "done"
    /\ \E r \in revoked_agents :
            r.agent_id = "finance_agent_001" /\ r.reason = AutoRevokeReason

(***************************************************************************)
(* Two execute_with_consensus calls, one after the other or in flight      *)
(* together, at a known and an unknown merchant, with an approve vote of   *)
(* the finance agent logged, the finance agent tampered and the audit      *)
(* agent revoked at any time.  No revocation record is ever removed.       *)
(***************************************************************************)
NextRuns ==
    \/ \E c \in CallIds, amount \in RunAmounts, merchant \in Merchants :
            CallBegin(MaxCallNow, c, amount, merchant)
    \/ \E c \in CallIds : CallStep(c)
    \/ \E tx_id \in RunHistoryTxIds :
            DbLogAgentVoteUpTo(MaxCallNow, "finance_agent_001", tx_id, "approve",
                               tx_id.amount, "none")
    \/ SimulateTampering("finance_agent_001")
    \/ RevokeAgentUpTo(MaxCallNow, "audit_agent_003")

SpecRuns == Init /\ [][NextRuns]_vars

\* The call has its votes: it has voted, or has returned a voted report.
HasVoted(c) ==
    \/ calls[c].pc \in {"restore", "log_agent_vote", "log_transaction"}
    \/ calls[c].pc = "done" /\ calls[c].votes # <<>>

\* The agents whose votes the call has.
VotingAgents(c) == {calls[c].votes[j].agent_id : j \in 1..Len(calls[c].votes)}

(***************************************************************************)
(* C38: the final status of a voted transaction is determined by amount,   *)
(* merchant and the set of voting agents alone.  Two runs with the same    *)
(* amount, merchant and voting agents have the same status and the same    *)
(* per-agent votes, whatever vote history each of them met; and while no   *)
(* agent has been revoked or tampered every run is voted by the full       *)
(* roster, so its status depends on amount and merchant only.              *)
(***************************************************************************)
C38_StatusDeterminedByInputsAndVoters ==
    \A c1, c2 \in CallIds :
        /\ (/\ HasVoted(c1) /\ HasVoted(c2)
            /\ calls[c1].amount = calls[c2].amount
            /\ calls[c1].merchant = calls[c2].merchant
            /\ VotingAgents(c1) = VotingAgents(c2))
                => /\ Upper(calls[c1].status) = Upper(calls[c2].status)
                   /\ calls[c1].votes = calls[c2].votes
        /\ (HasVoted(c1) /\ revoked_agents = {} /\ tampered_agents = {})
                => VotingAgents(c1) = Agents

\* Two runs of $1000.01 at Amazon are about to log their transaction, both
\* voted by the finance and compliance agents and approved; the first found
\* no approve history of the finance agent (APPROVE), the second found its
\* $100 vote (HOLD_ALERT).
C38_Witness ==
    /\ calls[1].pc = "log_transaction"
    /\ calls[2].pc = "log_transaction"
    /\ calls[1].amount = 100001 /\ calls[2].amount = 100001
    /\ calls[1].merchant = "Amazon" /\ calls[2].merchant = "Amazon"
    /\ VotingAgents(1) = {"finance_agent_001", "compliance_agent_002"}
    /\ VotingAgents(2) = VotingAgents(1)
    /\ calls[1].status = "approved"
    /\ calls[2].status = "approved"
    /\ calls[1].integrity[1] = [agent_id |-> "finance_agent_001", action |-> "APPROVE"]
    /\ calls[2].integrity[1] = [agent_id |-> "finance_agent_001", action |-> "HOLD_ALERT"]

====
